---- MODULE Spec2Model ----
(***************************************************************************)
(* MicroPostingPlatform backend: the credential verifier (UserModel), the  *)
(* in-memory store (DB) and the TTL cache (CacheService), as a state       *)
(* machine of concurrently scheduled async calls.  One action is one run   *)
(* of a call from a suspension point (an awaited storage, cache or bcrypt  *)
(* operation) to the next.  The store and the cache are asynchronous       *)
(* services (mocks of a database and of Redis), so every await of one of   *)
(* their operations is a point at which another call may run.  The model   *)
(* starts with the store seeded: initializeData() has completed.           *)
(***************************************************************************)
EXTENDS Integers, Sequences, FiniteSets, TLC

(***************************************************************************)
(* Program constants.                                                      *)
(***************************************************************************)
\* config.maxFailedLoginAttempts (default)
MaxFailedLoginAttempts == 5
\* config.accountLockoutDurationMs (default, 15 * 60 * 1000)
AccountLockoutDurationMs == 900000
\* config.cacheTTL (default, seconds)
CacheTTLSeconds == 300
\* validators.js
MIN_PASSWORD_LENGTH == 8
MIN_DISPLAY_NAME_LENGTH == 2

(***************************************************************************)
(* Bounds of the model.                                                    *)
(***************************************************************************)
\* the clock advances in steps of TickMs milliseconds, MaxTicks times
TickMs == 450000
MaxTicks == 2
\* records the users table may hold (3 seeded + registrations)
MaxUsers == 5
\* no login is started on a record whose failedLoginCount has reached this
MaxFailedLoginCount == 7
\* the concurrently scheduled calls
Tasks == {"t1", "t2"}

\* every slot a call can run in
Workers == Tasks \cup {"t3"}

\* posts the table can hold, and that are ever created (5 seeded + creations)
MaxPosts == 6
\* the clock of the cached reads advances by the TTL, TtlTicks times
TtlTicks == 2
\* a well-formed id that no record has
UnknownId == 99

(***************************************************************************)
(* Strings are sequences of one-character strings, so that toLowerCase,    *)
(* trim and the e-mail regular expression are computed, not assumed.       *)
(***************************************************************************)
Upper == <<"A", "B", "C", "D", "E", "F", "G", "H", "I", "J", "K", "L", "M",
           "N", "O", "P", "Q", "R", "S", "T", "U", "V", "W", "X", "Y", "Z">>
Lower == <<"a", "b", "c", "d", "e", "f", "g", "h", "i", "j", "k", "l", "m",
           "n", "o", "p", "q", "r", "s", "t", "u", "v", "w", "x", "y", "z">>

toLowerCaseChar(c) ==
    IF \E i \in 1..Len(Upper) : Upper[i] = c
    THEN Lower[CHOOSE i \in 1..Len(Upper) : Upper[i] = c]
    ELSE c

toLowerCase(s) == [i \in 1..Len(s) |-> toLowerCaseChar(s[i])]

isWhitespace(c) == c \in {" ", "\t", "\n"}

RECURSIVE trimStart(_)
trimStart(s) ==
    IF Len(s) > 0 /\ isWhitespace(s[1]) THEN trimStart(Tail(s)) ELSE s

RECURSIVE trimEnd(_)
trimEnd(s) ==
    IF Len(s) > 0 /\ isWhitespace(s[Len(s)])
    THEN trimEnd(SubSeq(s, 1, Len(s) - 1))
    ELSE s

trim(s) == trimEnd(trimStart(s))

\* EMAIL_REGEX = /^[^\s@]+@[^\s@]+\.[^\s@]+$/
EMAIL_REGEX_test(s) ==
    \E at \in 1..Len(s) :
        /\ s[at] = "@"
        /\ at > 1
        /\ \A i \in 1..Len(s) : ~isWhitespace(s[i]) /\ (s[i] = "@" => i = at)
        /\ \E dot \in (at + 2)..(Len(s) - 1) : s[dot] = "."

isValidEmail(email) == EMAIL_REGEX_test(email)

isNonEmptyString(str) == Len(trim(str)) > 0

(***************************************************************************)
(* Inputs.                                                                 *)
(***************************************************************************)
AliceEmail == <<"a", "l", "i", "c", "e", "@", "e", "x", "a", "m", "p", "l", "e", ".", "c", "o", "m">>
AliceUpperEmail == <<"A", "l", "i", "c", "e", "@", "E", "x", "a", "m", "p", "l", "e", ".", "c", "o", "m">>
BobEmail == <<"b", "o", "b", "@", "e", "x", "a", "m", "p", "l", "e", ".", "c", "o", "m">>
CharlieEmail == <<"c", "h", "a", "r", "l", "i", "e", "@", "e", "x", "a", "m", "p", "l", "e", ".", "c", "o", "m">>
AnnEmail == <<"a", "@", "x", ".", "c", "o", "m">>
AnnUpperEmail == <<"A", "@", "X", ".", "c", "o", "m">>
MalformedEmail == <<"a", "l", "i", "c", "e", ".", "e", "x", "a", "m", "p", "l", "e">>
SpacedEmail == <<" ", "a", "@", "x", ".", "c", "o", "m">>

Password123 == <<"p", "a", "s", "s", "w", "o", "r", "d", "1", "2", "3">>
WrongPassword == <<"w", "r", "o", "n", "g">>
EmptyPassword == <<>>
BlankPassword == <<" ">>

AnnName == <<"A", "n", "n">>
ShortName == <<"A">>

LoginEmails == {AliceUpperEmail, AnnEmail, MalformedEmail}
LoginPasswords == {Password123, WrongPassword, EmptyPassword, BlankPassword}
RegisterEmails == {AnnEmail, AnnUpperEmail, AliceUpperEmail, SpacedEmail}
RegisterPasswords == {Password123, WrongPassword}
RegisterNames == {AnnName, ShortName}

(***************************************************************************)
(* utils/errors.js: an error is its code, HTTP status and message.         *)
(***************************************************************************)
\* (the message is the sequence of the parts that the code joins with ', ')
AppError(message, code, statusCode) ==
    [message |-> message, code |-> code, statusCode |-> statusCode]

ValidationError(message) == AppError(message, "VALIDATION_ERROR", 400)
InvalidCredentialsError == AppError(<<"Invalid email or password">>, "INVALID_CREDENTIALS", 401)
ConflictError(message) == AppError(message, "CONFLICT", 409)
AccountLockedError ==
    AppError(<<"Account temporarily locked due to multiple failed login attempts">>,
             "ACCOUNT_LOCKED", 423)

ForbiddenError(message) == AppError(message, "FORBIDDEN", 403)

\* `${resource} not found`
NotFoundError(resource) == AppError(resource \o <<" not found">>, "NOT_FOUND", 404)

\* what a call that has not thrown carries in the error slot
NoError == AppError(<<>>, "OK", 200)

(***************************************************************************)
(* utils/validators.js                                                     *)
(***************************************************************************)
\* the error validateLogin throws, NoError when it returns
validateLogin(email, password) ==
    IF ~isValidEmail(email) \/ ~isNonEmptyString(password)
    THEN ValidationError(<<"Invalid email or password">>)
    ELSE NoError

\* validateRegistration collects every violation; the thrown error is a
\* ValidationError whose message joins them
validateRegistration(email, password, displayName) ==
    LET errors ==
            (IF ~isValidEmail(email) THEN <<"Invalid email format">> ELSE <<>>)
            \o (IF ~isNonEmptyString(password) \/ Len(password) < MIN_PASSWORD_LENGTH
                THEN <<"Password must be at least 8 characters">> ELSE <<>>)
            \o (IF ~isNonEmptyString(displayName) \/ Len(displayName) < MIN_DISPLAY_NAME_LENGTH
                THEN <<"Display name must be at least 2 characters">> ELSE <<>>)
    IN IF Len(errors) > 0 THEN ValidationError(errors) ELSE NoError

\* The validators and the normalisation, applied to every input once.
\* (variant: email.trim(), the case kept)
normalizeEmail_CaseKept == [e \in LoginEmails \cup RegisterEmails |-> trim(e)]

normalizeEmail == [e \in LoginEmails \cup RegisterEmails |-> trim(toLowerCase(e))]
validatedLogin == [r \in LoginEmails \X LoginPasswords |-> validateLogin(r[1], r[2])]
validatedRegistration ==
    [r \in RegisterEmails \X RegisterPasswords \X RegisterNames |->
        validateRegistration(r[1], r[2], r[3])]

(***************************************************************************)
(* services/crypto.service.js: bcrypt is modelled by what it guarantees,   *)
(* compare(p, hash(q)) = (p = q); the dummy hash is no hash of anything.   *)
(***************************************************************************)
hashPassword(password) == <<"bcrypt", password>>
DUMMY_PASSWORD_HASH == <<"dummy">>
verifyPassword(password, hash) == hash = <<"bcrypt", password>>
generateToken(userId, email) == [userId |-> userId, email |-> email]

(***************************************************************************)
(* Values that may be null: <<>> is null, <<v>> is v.  A Date is its epoch *)
(* milliseconds; a null Date is NullDate.                                  *)
(***************************************************************************)
Null == <<>>
Some(v) == <<v>>
NullDate == -1

(***************************************************************************)
(* services/database.service.js                                            *)
(***************************************************************************)
SeedHash == hashPassword(Password123)

\* the users table after initializeData()
SeedUsers ==
    << [id |-> 1, email |-> AliceEmail,
        displayName |-> <<"A", "l", "i", "c", "e", " ", "C", "h", "e", "n">>,
        avatarUrl |-> <<"a", "l", "i", "c", "e">>,
        passwordHash |-> SeedHash, status |-> "ACTIVE",
        failedLoginCount |-> 0, lockedUntil |-> NullDate,
        createdAt |-> 0, deletedAt |-> NullDate],
       [id |-> 2, email |-> BobEmail,
        displayName |-> <<"B", "o", "b", " ", "S", "m", "i", "t", "h">>,
        avatarUrl |-> <<"b", "o", "b">>,
        passwordHash |-> SeedHash, status |-> "ACTIVE",
        failedLoginCount |-> 0, lockedUntil |-> NullDate,
        createdAt |-> 0, deletedAt |-> NullDate],
       [id |-> 3, email |-> CharlieEmail,
        displayName |-> <<"C", "h", "a", "r", "l", "i", "e", " ", "D", "a", "v", "i", "s">>,
        avatarUrl |-> <<"c", "h", "a", "r", "l", "i", "e">>,
        passwordHash |-> SeedHash, status |-> "ACTIVE",
        failedLoginCount |-> 0, lockedUntil |-> NullDate,
        createdAt |-> 0, deletedAt |-> NullDate] >>

\* users.find(...): the first of the records at the matching indices, or null
Find(us, matching) ==
    IF matching = {} THEN Null
    ELSE Some(us[CHOOSE i \in matching : \A j \in matching : i <= j])

\* options.select.forEach(key => selected[key] = user[key])
Select(user, keys) == [k \in keys |-> user[k]]

AuthSelect ==
    {"id", "email", "displayName", "avatarUrl", "passwordHash", "status",
     "failedLoginCount", "lockedUntil"}

findUserByEmail(us, email, select) ==
    LET matching == {i \in 1..Len(us) : us[i].email = email /\ us[i].deletedAt = NullDate}
        user == Find(us, matching)
    IN IF user = Null THEN Null
       ELSE IF select # {} THEN Some(Select(user[1], select))
       ELSE user

findUserById(us, id, whereNotDeleted) ==
    LET matching == {i \in 1..Len(us) :
                        us[i].id = id /\ ~(whereNotDeleted /\ us[i].deletedAt # NullDate)}
    IN Find(us, matching)

findAllUsers(us) ==
    LET NotDeleted(u) == u.deletedAt = NullDate
    IN SelectSeq(us, NotDeleted)

\* { ...data, id, failedLoginCount: 0, lockedUntil: null, createdAt, deletedAt: null }
NewUser(data, id, time) ==
    [id |-> id, failedLoginCount |-> 0, lockedUntil |-> NullDate,
     createdAt |-> time, deletedAt |-> NullDate] @@ data

createUser(us, data, id, time) == Append(us, NewUser(data, id, time))

\* a store that patches every record
updateUser_Everywhere(us, id, data) == [i \in 1..Len(us) |-> data @@ us[i]]

\* a store that counts a failure on the record as it is at the write
updateUser_Incrementing(us, id, data) ==
    [i \in 1..Len(us) |->
        IF us[i].id = id /\ \A j \in 1..(i - 1) : us[j].id # id
        THEN [failedLoginCount |-> IF data.failedLoginCount = 0
                                   THEN 0
                                   ELSE us[i].failedLoginCount + 1] @@ data @@ us[i]
        ELSE us[i]]

\* users[index] = { ...users[index], ...data }; no record of that id: no change
updateUser(us, id, data) ==
    [i \in 1..Len(us) |->
        IF us[i].id = id /\ \A j \in 1..(i - 1) : us[j].id # id
        THEN data @@ us[i]
        ELSE us[i]]

(***************************************************************************)
(* utils/validators.js: ids, post content, pagination.  An id is the       *)
(* number of the UUID that generateId() returned; NotAUuid is a string     *)
(* that UUID_REGEX does not match.                                         *)
(***************************************************************************)
MAX_POST_LENGTH == 280

NotAUuid == 0

isValidId(id) == id # NotAUuid

toUpperCaseChar(c) ==
    IF \E i \in 1..Len(Lower) : Lower[i] = c
    THEN Upper[CHOOSE i \in 1..Len(Lower) : Lower[i] = c]
    ELSE c

toUpperCase(s) == [i \in 1..Len(s) |-> toUpperCaseChar(s[i])]

\* text.replace(/[<>]/g, '').replace(/\s+/g, ' ').trim()
sanitizeText(text) ==
    LET NoAngle(c) == c \notin {"<", ">"}
        s == SelectSeq(text, NoAngle)
        \* a run of whitespace becomes one space: its first character is
        \* replaced by " ", the others (marked "") are dropped
        marked == [i \in 1..Len(s) |->
                      IF ~isWhitespace(s[i]) THEN s[i]
                      ELSE IF i > 1 /\ isWhitespace(s[i - 1]) THEN ""
                      ELSE " "]
        Kept(c) == c # ""
    IN trim(SelectSeq(marked, Kept))

\* a validatePostContent that would refuse 280 characters too
validatePostContent_Below(content) ==
    IF ~isNonEmptyString(content)
    THEN ValidationError(<<"Post content cannot be empty">>)
    ELSE IF Len(content) >= MAX_POST_LENGTH
    THEN ValidationError(<<"Post content must be less than 280 characters">>)
    ELSE NoError

\* the error validatePostContent throws, NoError when it returns
validatePostContent(content) ==
    IF ~isNonEmptyString(content)
    THEN ValidationError(<<"Post content cannot be empty">>)
    ELSE IF Len(content) > MAX_POST_LENGTH
    THEN ValidationError(<<"Post content must be less than 280 characters">>)
    ELSE NoError

\* Math.min(Math.max(value, min), max)
clamp(value, min, max) ==
    LET atLeast == IF value > min THEN value ELSE min
    IN IF atLeast < max THEN atLeast ELSE max

ASC == <<"A", "S", "C">>
DESC == <<"D", "E", "S", "C">>

\* validatePagination: limit, offset and order are undefined (Null) or a
\* value; the result is the thrown error, or the normalised options
validatePagination(limit, offset, order) ==
    LET errors ==
            (IF limit # Null /\ (limit[1] < 1 \/ limit[1] > 100)
             THEN <<"Limit must be an integer between 1 and 100">> ELSE <<>>)
            \o (IF offset # Null /\ offset[1] < 0
                THEN <<"Offset must be a non-negative integer">> ELSE <<>>)
            \o (IF order # Null /\ toUpperCase(order[1]) \notin {ASC, DESC}
                THEN <<"Order must be ASC or DESC">> ELSE <<>>)
    IN IF Len(errors) > 0
       THEN [error |-> ValidationError(errors), limit |-> 0, offset |-> 0, order |-> <<>>]
       ELSE [error |-> NoError,
             limit |-> IF limit # Null /\ limit[1] # 0 THEN clamp(limit[1], 1, 100) ELSE 20,
             offset |-> IF offset # Null /\ offset[1] # 0 THEN offset[1] ELSE 0,
             order |-> IF order # Null /\ order[1] # <<>> THEN toUpperCase(order[1]) ELSE DESC]

(***************************************************************************)
(* Dates.  A Date is its epoch milliseconds, counted from the start of the *)
(* server; JSON.stringify turns a Date into its ISO string, which is       *)
(* written here as the milliseconds shifted down by IsoShift, below every  *)
(* Date of the model.  new Date(s) reads it back; s.getTime() is a         *)
(* TypeError.                                                              *)
(***************************************************************************)
IsoShift == 1000000000

\* typeof v === 'string'
IsIsoString(v) == v < -(IsoShift \div 2)

\* what JSON.parse(JSON.stringify(v)) gives for a Date, an ISO string or null
JsonDate(v) == IF v = NullDate \/ IsIsoString(v) THEN v ELSE v - IsoShift

\* new Date(v).getTime()
NewDate(v) == IF IsIsoString(v) THEN v + IsoShift ELSE v

\* JSON.parse(JSON.stringify(users))
JsonUsers(us) ==
    [i \in 1..Len(us) |->
        [us[i] EXCEPT !.createdAt = JsonDate(@), !.lockedUntil = JsonDate(@),
                      !.deletedAt = JsonDate(@)]]

\* JSON.parse(JSON.stringify(posts))
JsonPosts(ps) ==
    [i \in 1..Len(ps) |->
        [ps[i] EXCEPT !.createdAt = JsonDate(@), !.deletedAt = JsonDate(@)]]

(***************************************************************************)
(* services/database.service.js: the posts table.  A character outside     *)
(* ASCII of a seeded content is written "~".                               *)
(***************************************************************************)
SeedContent1 ==
    << "J", "u", "s", "t", " ", "d", "e", "p", "l", "o", "y", "e", "d", " ",
       "m", "y", " ", "f", "i", "r", "s", "t", " ", "m", "i", "c", "r", "o",
       "s", "e", "r", "v", "i", "c", "e", "!", " ", "T", "h", "e", " ", "a",
       "r", "c", "h", "i", "t", "e", "c", "t", "u", "r", "e", " ", "i", "s",
       " ", "c", "l", "e", "a", "n", " ", "a", "n", "d", " ", "s", "c", "a",
       "l", "a", "b", "l", "e", ".", " ", "~", "~", "~", "~" >>

SeedContent2 ==
    << "T", "y", "p", "e", "S", "c", "r", "i", "p", "t", " ", "+", " ", "R",
       "e", "a", "c", "t", " ", "i", "s", " ", "s", "u", "c", "h", " ", "a",
       " ", "p", "o", "w", "e", "r", "f", "u", "l", " ", "c", "o", "m", "b",
       "i", "n", "a", "t", "i", "o", "n", " ", "f", "o", "r", " ", "b", "u",
       "i", "l", "d", "i", "n", "g", " ", "m", "o", "d", "e", "r", "n", " ",
       "w", "e", "b", " ", "a", "p", "p", "s", "." >>

SeedContent3 ==
    << "R", "e", "m", "e", "m", "b", "e", "r", ":", " ", "C", "l", "e", "a",
       "n", " ", "c", "o", "d", "e", " ", "i", "s", " ", "n", "o", "t", " ",
       "a", "b", "o", "u", "t", " ", "m", "a", "k", "i", "n", "g", " ", "c",
       "o", "d", "e", " ", "s", "h", "o", "r", "t", "e", "r", ",", " ", "i",
       "t", "'", "s", " ", "a", "b", "o", "u", "t", " ", "m", "a", "k", "i",
       "n", "g", " ", "i", "t", " ", "c", "l", "e", "a", "r", "e", "r", "." >>

SeedContent4 ==
    << "J", "u", "s", "t", " ", "f", "i", "n", "i", "s", "h", "e", "d", " ",
       "r", "e", "a", "d", "i", "n", "g", " ", "\"", "C", "l", "e", "a", "n",
       " ", "A", "r", "c", "h", "i", "t", "e", "c", "t", "u", "r", "e", "\"",
       " ", "b", "y", " ", "R", "o", "b", "e", "r", "t", " ", "M", "a", "r",
       "t", "i", "n", ".", " ", "H", "i", "g", "h", "l", "y", " ", "r", "e",
       "c", "o", "m", "m", "e", "n", "d", "e", "d", "!" >>

SeedContent5 ==
    << "C", "a", "c", "h", "e", " ", "i", "n", "v", "a", "l", "i", "d", "a",
       "t", "i", "o", "n", " ", "a", "n", "d", " ", "n", "a", "m", "i", "n",
       "g", " ", "t", "h", "i", "n", "g", "s", " ", "-", " ", "t", "h", "e",
       " ", "t", "w", "o", " ", "h", "a", "r", "d", "e", "s", "t", " ", "p",
       "r", "o", "b", "l", "e", "m", "s", " ", "i", "n", " ", "c", "o", "m",
       "p", "u", "t", "e", "r", " ", "s", "c", "i", "e", "n", "c", "e", ".",
       " ", "~", "~", "~", "~" >>

HourMs == 3600000

\* the posts table after initializeData()
SeedPosts ==
    << [id |-> 4, userId |-> 1, content |-> SeedContent1,
        createdAt |-> -(2 * HourMs), deletedAt |-> NullDate],
       [id |-> 5, userId |-> 2, content |-> SeedContent2,
        createdAt |-> -(5 * HourMs), deletedAt |-> NullDate],
       [id |-> 6, userId |-> 1, content |-> SeedContent3,
        createdAt |-> -(24 * HourMs), deletedAt |-> NullDate],
       [id |-> 7, userId |-> 3, content |-> SeedContent4,
        createdAt |-> -(48 * HourMs), deletedAt |-> NullDate],
       [id |-> 8, userId |-> 2, content |-> SeedContent5,
        createdAt |-> -(72 * HourMs), deletedAt |-> NullDate] >>

\* posts.find(p => p.id === id), a copy of it, or null
findPostById(ps, id) == Find(ps, {i \in 1..Len(ps) : ps[i].id = id})

\* result.sort by createdAt: Array.prototype.sort is stable, so the place of
\* the element at i is the number of elements that go before it
SortByCreatedAt(ps, order) ==
    LET Before(j, i) ==
            \/ (IF order = <<"A", "S", "C">>
                THEN ps[j].createdAt < ps[i].createdAt
                ELSE ps[j].createdAt > ps[i].createdAt)
            \/ (ps[j].createdAt = ps[i].createdAt /\ j < i)
        Place(i) == Cardinality({j \in 1..Len(ps) : Before(j, i)}) + 1
    IN [k \in 1..Len(ps) |-> ps[CHOOSE i \in 1..Len(ps) : Place(i) = k]]

\* result.slice(offset, offset + limit)
Slice(s, offset, limit) ==
    SubSeq(s, offset + 1, IF offset + limit < Len(s) THEN offset + limit ELSE Len(s))

\* a TypeError is no AppError: it has no code and no status of the application
TypeError(message) == AppError(message, "TypeError", 500)

\* DB.findPosts: filter, sort, paginate; userId and order are null or a value.
\* The comparator calls createdAt.getTime() on the elements it is given, and
\* it is given every element when there are two or more.
findPosts(ps, userId, notDeleted, order, limit, offset) ==
    LET ByUser(p) == userId = Null \/ p.userId = userId[1]
        byUser == SelectSeq(ps, ByUser)
        NotDeleted(p) == ~notDeleted \/ p.deletedAt = NullDate
        result == SelectSeq(byUser, NotDeleted)
    IN IF order # Null /\ Len(result) >= 2
          /\ \E i \in 1..Len(result) : IsIsoString(result[i].createdAt)
       THEN [error |-> TypeError(<<"a.createdAt.getTime is not a function">>),
             posts |-> <<>>]
       ELSE [error |-> NoError,
             posts |-> Slice(IF order # Null THEN SortByCreatedAt(result, order[1])
                             ELSE result, offset, limit)]

\* { ...data, id, createdAt: new Date(), deletedAt: null }
NewPost(data, id, time) ==
    [id |-> id, createdAt |-> time, deletedAt |-> NullDate] @@ data

createPost(ps, data, id, time) == Append(ps, NewPost(data, id, time))

\* posts[index] = { ...posts[index], deletedAt: new Date() }
softDeletePost(ps, id, time) ==
    [i \in 1..Len(ps) |->
        IF ps[i].id = id /\ \A j \in 1..(i - 1) : ps[j].id # id
        THEN [ps[i] EXCEPT !.deletedAt = time]
        ELSE ps[i]]

\* tx.userExists
userExists(us, userId) ==
    \E i \in 1..Len(us) :
        us[i].id = userId /\ us[i].deletedAt = NullDate /\ us[i].status = "ACTIVE"

(***************************************************************************)
(* services/cache.service.js: the cache is the Map key -> {value,          *)
(* expiresAt}; a key is the tuple of the parts of its string.              *)
(***************************************************************************)
cacheKeys_allUsers == <<"users", "all">>

CacheTtlMs == CacheTTLSeconds * 1000

\* Map.delete
MapDelete(c, key) == [k \in (DOMAIN c) \ {key} |-> c[k]]

\* the Map after cache.get(key): an expired entry is evicted
\* a cache.get that would evict the entry it returns
cacheAfterGet_Evicting(c, key, time) == MapDelete(c, key)

cacheAfterGet(c, key, time) ==
    IF key \in DOMAIN c /\ time > c[key].expiresAt THEN MapDelete(c, key) ELSE c

\* a cache.get that would not look at expiresAt
cacheGet_NoExpiry(c, key, time) ==
    IF key \notin DOMAIN c THEN Null ELSE Some(c[key].value)

\* what cache.get(key) returns
cacheGet(c, key, time) ==
    IF key \notin DOMAIN c THEN Null
    ELSE IF time > c[key].expiresAt THEN Null
    ELSE Some(c[key].value)

cacheSet(c, key, value, time) ==
    [k \in (DOMAIN c) \cup {key} |->
        IF k = key THEN [value |-> value, expiresAt |-> time + CacheTtlMs] ELSE c[k]]

cacheDelete(c, key) == MapDelete(c, key)

\* the cache key generators: `user:${userId}`, `post:${postId}`,
\* `posts:user:${userId}:page:${page}`, `posts:feed:page:${page}`
cacheKeys_user(userId) == <<"user", ToString(userId)>>

cacheKeys_post(postId) == <<"post", ToString(postId)>>

cacheKeys_userPosts(userId, page) == <<"posts", "user", ToString(userId), "page", ToString(page)>>

cacheKeys_feed(page) == <<"posts", "feed", "page", ToString(page)>>

\* new RegExp(pattern.replace('*', '.*')).test(key), for a pattern that ends
\* in ':*': the parts before the '*' occur in the key, one after the other
\* and followed by a ':'; the expression is not anchored
regexTest(pattern, key) ==
    LET n == Len(pattern) - 1
    IN \E o \in 0..Len(key) :
          /\ o + n < Len(key)
          /\ \A i \in 1..n : key[o + i] = pattern[i]

\* the Map after cache.deletePattern(pattern)
cacheDeletePattern(c, pattern) ==
    [k \in {key \in DOMAIN c : ~regexTest(pattern, key)} |-> c[k]]

userPostsPattern(userId) == <<"posts", "user", ToString(userId), "*">>

feedPattern == <<"posts", "feed", "*">>

(***************************************************************************)
(* models/User.model.js: the synchronous helpers                           *)
(***************************************************************************)
toSafeUser(user) == Select(user, {"id", "email", "displayName", "avatarUrl"})

\* (variant: a public profile that would carry the e-mail)
toPublicProfile_WithEmail(user) ==
    Select(user, {"id", "email", "displayName", "avatarUrl", "createdAt"})

toPublicProfile(user) == Select(user, {"id", "displayName", "avatarUrl", "createdAt"})

\* (variant: the lock check with >=, locked at the instant the lock ends)
isLocked_Inclusive(user, time) ==
    user # Null /\ user[1].lockedUntil # NullDate /\ user[1].lockedUntil >= time

\* user?.lockedUntil && new Date(user.lockedUntil) > new Date()
isLocked(user, time) ==
    user # Null /\ user[1].lockedUntil # NullDate /\ user[1].lockedUntil > time

\* (variant: the lock set only above the threshold, newCount > max)
failedLoginUpdates_AboveThreshold(user, time) ==
    LET newCount == user.failedLoginCount + 1
    IN IF newCount > MaxFailedLoginAttempts
       THEN [failedLoginCount |-> newCount,
             lockedUntil |-> time + AccountLockoutDurationMs]
       ELSE [failedLoginCount |-> newCount]

\* (variant: the count taken from the threshold, not from the record)
failedLoginUpdates_JumpToThreshold(user, time) ==
    [failedLoginCount |-> MaxFailedLoginAttempts,
     lockedUntil |-> time + AccountLockoutDurationMs]

\* the patch recordFailedLogin computes from the record it read
failedLoginUpdates(user, time) ==
    LET newCount == user.failedLoginCount + 1
    IN IF newCount >= MaxFailedLoginAttempts
       THEN [failedLoginCount |-> newCount,
             lockedUntil |-> time + AccountLockoutDurationMs]
       ELSE [failedLoginCount |-> newCount]

\* (variant: the counter reset, the lock kept)
resetUpdates_CountOnly == [failedLoginCount |-> 0]

\* the patch resetFailedLogin writes
resetUpdates == [failedLoginCount |-> 0, lockedUntil |-> NullDate]

(***************************************************************************)
(* State.                                                                  *)
(***************************************************************************)
VARIABLES
    users,      \* database.service.js: the users table
    posts,      \* database.service.js: the posts table
    cache,      \* cache.service.js: the Map of the cache singleton
    now,        \* the wall clock, in milliseconds since the server started
    nextId,     \* the next value generateId() returns
    pc,         \* per call slot: the suspension point the call is at
    loc,        \* per call slot: the local variables of the call
    streak,     \* history: per user id, the failed logins that ran one after
                \* another (none overlapped another login on the account)
                \* since the last success, counted up to the threshold
    response    \* history: the call that the last step completed, with
                \* what it threw or returned; NoCall if that step completed none

vars == <<users, posts, cache, now, nextId, pc, loc, streak, response>>

\* the arguments and locals of a call, and its history: read, it has read
\* the users table; solo, no other login on the same account has been in
\* flight with it; registered, the ids of the users whose register() had
\* returned when the call began
\* For the calls on posts and profiles: id and postId are the id arguments,
\* options the pagination, key the cache key, snapshot the copies
\* DB.transaction took, found what the store returned, missing the authors
\* that cache.get did not return, authors the profiles by user id; reads
\* counts the reads of the store (history).
IdleLoc ==
    [op |-> "idle", email |-> <<>>, password |-> <<>>, displayName |-> <<>>,
     normalizedEmail |-> <<>>, user |-> Null, updates |-> <<>>, profiles |-> <<>>,
     read |-> FALSE, solo |-> TRUE, registered |-> {},
     id |-> 0, postId |-> 0, content |-> <<>>, options |-> <<>>, key |-> <<>>,
     snapshot |-> <<>>, found |-> <<>>, missing |-> {}, authors |-> <<>>,
     reads |-> 0, sanitizedContent |-> <<>>, userExists |-> FALSE,
     cachedKeys |-> {}, deleted |-> {}, begin |-> <<>>, args |-> <<>>]

NoCall == [task |-> "none", call |-> IdleLoc, error |-> NoError, result |-> Null]

EmptyCache == [k \in {} |-> NoError]

Init ==
    /\ users = SeedUsers
    /\ posts = SeedPosts
    /\ cache = EmptyCache
    /\ now = 0
    /\ nextId = Len(SeedUsers) + Len(SeedPosts) + 1
    /\ pc = [t \in Workers |-> "idle"]
    /\ loc = [t \in Workers |-> IdleLoc]
    /\ streak = [id \in 1..Len(SeedUsers) |-> 0]
    /\ response = NoCall

\* the call of slot t, with locals l, ends: it throws error, or returns
\* result (error = NoError)
Complete(t, l, error, result) ==
    /\ pc' = [pc EXCEPT ![t] = "idle"]
    /\ loc' = [loc EXCEPT ![t] = IdleLoc]
    /\ response' = [task |-> t, call |-> l, error |-> error, result |-> result]

\* the call of slot t goes on to the suspension point next, with locals l
Suspend(t, l, next) ==
    /\ pc' = [pc EXCEPT ![t] = next]
    /\ loc' = [loc EXCEPT ![t] = l]
    /\ response' = NoCall

Min(a, b) == IF a < b THEN a ELSE b

(***************************************************************************)
(* UserModel.authenticate                                                  *)
(***************************************************************************)
\* the other logins in flight on the account of this e-mail
OtherLogins(t, email) ==
    {o \in Workers \ {t} : loc[o].op = "authenticate" /\ loc[o].normalizedEmail = email}

\* validateLogin, then await DB.findUserByEmail
AuthCall(t, email, password) ==
    /\ pc[t] = "idle"
    /\ \A i \in 1..Len(users) :
          users[i].email = normalizeEmail[email] => users[i].failedLoginCount < MaxFailedLoginCount
    /\ LET error == validatedLogin[<<email, password>>]
           normalizedEmail == normalizeEmail[email]
           l == [IdleLoc EXCEPT !.op = "authenticate", !.email = email,
                                !.password = password,
                                !.normalizedEmail = normalizedEmail]
       IN IF error # NoError
          THEN /\ Complete(t, l, error, Null)
               /\ UNCHANGED <<posts, users, cache, now, nextId, streak>>
          ELSE /\ pc' = [pc EXCEPT ![t] = "auth_verify"]
               /\ loc' = [o \in Workers |->
                    IF o = t
                    THEN [l EXCEPT !.user = findUserByEmail(users, normalizedEmail, AuthSelect),
                                   !.read = TRUE,
                                   !.solo = OtherLogins(t, normalizedEmail) = {}]
                    ELSE IF o \in OtherLogins(t, normalizedEmail)
                    THEN [loc[o] EXCEPT !.solo = FALSE]
                    ELSE loc[o]]
               /\ response' = NoCall
               /\ UNCHANGED <<posts, users, cache, now, nextId, streak>>

\* a lock check that counts the refused attempt on the record
AuthVerify_Counting(t) ==
    /\ pc[t] = "auth_verify"
    /\ LET user == loc[t].user
           passwordHash == IF user # Null THEN user[1].passwordHash ELSE DUMMY_PASSWORD_HASH
           isValidPassword == verifyPassword(loc[t].password, passwordHash)
       IN /\ IF isLocked(user, now)
             THEN /\ users' = updateUser(users, user[1].id,
                                         [failedLoginCount |-> user[1].failedLoginCount + 1])
                  /\ Complete(t, loc[t], AccountLockedError, Null)
             ELSE /\ users' = users
                  /\ IF user = Null
                     THEN Complete(t, loc[t], InvalidCredentialsError, Null)
                     ELSE IF user[1].status # "ACTIVE" \/ ~isValidPassword
                     THEN Suspend(t, loc[t], "record_find")
                     ELSE Suspend(t, loc[t], "auth_reset")
          /\ UNCHANGED <<posts, cache, now, nextId, streak>>

\* after await verifyPassword: the lock check, then the credential check
AuthVerify(t) ==
    /\ pc[t] = "auth_verify"
    /\ LET user == loc[t].user
           passwordHash == IF user # Null THEN user[1].passwordHash ELSE DUMMY_PASSWORD_HASH
           isValidPassword == verifyPassword(loc[t].password, passwordHash)
       IN /\ IF isLocked(user, now)
             THEN Complete(t, loc[t], AccountLockedError, Null)
             ELSE IF user = Null
             THEN Complete(t, loc[t], InvalidCredentialsError, Null)
             ELSE IF user[1].status # "ACTIVE" \/ ~isValidPassword
             THEN Suspend(t, loc[t], "record_find")
             ELSE Suspend(t, loc[t], "auth_reset")
          /\ UNCHANGED <<posts, users, cache, now, nextId, streak>>

\* recordFailedLogin: await DB.findUserById, then the patch is computed
RecordFailedLoginFind(t) ==
    /\ pc[t] = "record_find"
    /\ LET user == findUserById(users, loc[t].user[1].id, FALSE)
       IN /\ IF user = Null
             THEN Complete(t, loc[t], InvalidCredentialsError, Null)
             ELSE Suspend(t, [loc[t] EXCEPT !.updates = failedLoginUpdates(user[1], now)],
                          "record_update")
          /\ UNCHANGED <<posts, users, cache, now, nextId, streak>>

\* recordFailedLogin: await DB.updateUser; authenticate throws
RecordFailedLoginUpdate(t) ==
    /\ pc[t] = "record_update"
    /\ LET id == loc[t].user[1].id
       IN /\ users' = updateUser(users, id, loc[t].updates)
          /\ streak' = [streak EXCEPT ![id] =
                            IF loc[t].solo THEN Min(@ + 1, MaxFailedLoginAttempts) ELSE 0]
          /\ Complete(t, loc[t], InvalidCredentialsError, Null)
          /\ UNCHANGED <<posts, cache, now, nextId>>

\* resetFailedLogin: await DB.updateUser; authenticate returns {user, token}
AuthReset(t) ==
    /\ pc[t] = "auth_reset"
    /\ LET user == loc[t].user[1]
       IN /\ users' = updateUser(users, user.id, resetUpdates)
          /\ streak' = [streak EXCEPT ![user.id] = 0]
          /\ Complete(t, loc[t], NoError,
                      Some([user |-> toSafeUser(user),
                            token |-> generateToken(user.id, user.email)]))
          /\ UNCHANGED <<posts, cache, now, nextId>>

\* the avatar URL register() builds: the service URL, then the display name
avatarUrl(displayName) == <<"https://api.dicebear.com/7.x/avataaars/svg?seed=">> \o displayName

\* the ids of the users whose register() has returned (the seeded ones are
\* there from the start)
Registered ==
    {users[i].id : i \in 1..Len(users)}
        \ {loc[o].user[1].id : o \in {o \in Workers : pc[o] = "register_invalidate"}}

(***************************************************************************)
(* UserModel.register                                                      *)
(***************************************************************************)
\* validateRegistration, then await DB.findUserByEmail
RegisterCall(t, email, password, displayName) ==
    /\ pc[t] = "idle"
    /\ Len(users) + Cardinality({o \in Workers : pc[o] = "register_create"}) < MaxUsers
    /\ LET error == validatedRegistration[<<email, password, displayName>>]
           normalizedEmail == normalizeEmail[email]
           l == [IdleLoc EXCEPT !.op = "register", !.email = email,
                                !.password = password, !.displayName = displayName,
                                !.normalizedEmail = normalizedEmail]
           existingUser == findUserByEmail(users, normalizedEmail, {})
       IN /\ IF error # NoError
             THEN Complete(t, l, error, Null)
             ELSE IF existingUser # Null
             THEN Complete(t, [l EXCEPT !.read = TRUE],
                           ConflictError(<<"Email already registered">>), Null)
             ELSE Suspend(t, [l EXCEPT !.read = TRUE], "register_create")
          /\ UNCHANGED <<posts, users, cache, now, nextId, streak>>

\* after await hashPassword: await DB.createUser
RegisterCreate(t) ==
    /\ pc[t] = "register_create"
    /\ LET data == [email |-> loc[t].normalizedEmail,
                    displayName |-> trim(loc[t].displayName),
                    passwordHash |-> hashPassword(loc[t].password),
                    status |-> "ACTIVE",
                    avatarUrl |-> avatarUrl(loc[t].displayName)]
       IN /\ users' = createUser(users, data, nextId, now)
          /\ nextId' = nextId + 1
          /\ streak' = [id \in DOMAIN streak \cup {nextId} |->
                            IF id = nextId THEN 0 ELSE streak[id]]
          /\ Suspend(t, [loc[t] EXCEPT !.user = Some(NewUser(data, nextId, now))],
                     "register_invalidate")
          /\ UNCHANGED <<posts, cache, now>>

\* await cache.delete(cacheKeys.allUsers()); register returns {user, token}
RegisterInvalidate(t) ==
    /\ pc[t] = "register_invalidate"
    /\ LET user == loc[t].user[1]
       IN /\ cache' = cacheDelete(cache, cacheKeys_allUsers)
          /\ Complete(t, loc[t], NoError,
                      Some([user |-> toSafeUser(user),
                            token |-> generateToken(user.id, user.email)]))
          /\ UNCHANGED <<posts, users, now, nextId, streak>>

(***************************************************************************)
(* UserModel.getAll                                                        *)
(***************************************************************************)
\* await cache.get(cacheKeys.allUsers())
GetAllCall(t) ==
    /\ pc[t] = "idle"
    /\ LET cached == cacheGet(cache, cacheKeys_allUsers, now)
           l == [IdleLoc EXCEPT !.op = "getAll", !.registered = Registered]
       IN /\ cache' = cacheAfterGet(cache, cacheKeys_allUsers, now)
          /\ IF cached # Null
             THEN Complete(t, l, NoError, cached)
             ELSE Suspend(t, l, "getAll_find")
          /\ UNCHANGED <<posts, users, now, nextId, streak>>

\* await DB.findAllUsers(); users.map(toPublicProfile)
GetAllFind(t) ==
    /\ pc[t] = "getAll_find"
    /\ LET found == findAllUsers(users)
           profiles == [i \in 1..Len(found) |-> toPublicProfile(found[i])]
       IN /\ Suspend(t, [loc[t] EXCEPT !.profiles = profiles, !.read = TRUE,
                                       !.reads = @ + 1, !.key = cacheKeys_allUsers],
                     "getAll_set")
          /\ UNCHANGED <<posts, users, cache, now, nextId, streak>>

\* await cache.set(cacheKey, profiles); getAll returns profiles
GetAllSet(t) ==
    /\ pc[t] = "getAll_set"
    /\ cache' = cacheSet(cache, cacheKeys_allUsers, loc[t].profiles, now)
    /\ Complete(t, loc[t], NoError, Some(loc[t].profiles))
    /\ UNCHANGED <<posts, users, now, nextId, streak>>

(***************************************************************************)
(* UserModel.getById                                                       *)
(***************************************************************************)
\* isValidId, then await cache.get(cacheKeys.user(id))
GetByIdCall(t, id) ==
    /\ pc[t] = "idle"
    /\ LET l == [IdleLoc EXCEPT !.op = "getById", !.id = id, !.key = cacheKeys_user(id)]
           cached == cacheGet(cache, l.key, now)
       IN /\ IF ~isValidId(id)
             THEN cache' = cache /\ Complete(t, l, ValidationError(<<"Invalid user ID">>), Null)
             ELSE /\ cache' = cacheAfterGet(cache, l.key, now)
                  /\ IF cached # Null
                     THEN Complete(t, l, NoError, cached)
                     ELSE Suspend(t, l, "getById_find")
          /\ UNCHANGED <<users, posts, now, nextId, streak>>

\* await DB.findUserById(id, { where: { deletedAt: null } }); toPublicProfile
GetByIdFind(t) ==
    /\ pc[t] = "getById_find"
    /\ LET user == findUserById(users, loc[t].id, TRUE)
           l == [loc[t] EXCEPT !.reads = @ + 1]
       IN /\ IF user = Null
             THEN Complete(t, l, NotFoundError(<<"User">>), Null)
             ELSE Suspend(t, [l EXCEPT !.found = Some(toPublicProfile(user[1]))],
                          "getById_set")
          /\ UNCHANGED <<users, posts, cache, now, nextId, streak>>

\* await cache.set(cacheKey, profile); getById returns profile
GetByIdSet(t) ==
    /\ pc[t] = "getById_set"
    /\ cache' = cacheSet(cache, loc[t].key, loc[t].found[1], now)
    /\ Complete(t, loc[t], NoError, loc[t].found)
    /\ UNCHANGED <<users, posts, now, nextId, streak>>

\* the posts whose deleteOwned() has returned: soft-deleted in the table, by a
\* call that is no longer running
Deleted ==
    {posts[i].id : i \in {i \in 1..Len(posts) : posts[i].deletedAt # NullDate}}
        \ {loc[o].postId : o \in {o \in Workers : loc[o].op = "deleteOwned"}}

(***************************************************************************)
(* PostModel.getById                                                       *)
(***************************************************************************)
\* isValidId, then await cache.get(cacheKeys.post(postId))
PostGetByIdCall(t, postId) ==
    /\ pc[t] = "idle"
    /\ LET l == [IdleLoc EXCEPT !.op = "PostModel.getById", !.postId = postId,
                                !.key = cacheKeys_post(postId), !.deleted = Deleted]
           cached == cacheGet(cache, l.key, now)
       IN /\ IF ~isValidId(postId)
             THEN cache' = cache /\ Complete(t, l, ValidationError(<<"Invalid post ID">>), Null)
             ELSE /\ cache' = cacheAfterGet(cache, l.key, now)
                  /\ IF cached # Null
                     THEN Complete(t, l, NoError, cached)
                     ELSE Suspend(t, l, "postGetById_find")
          /\ UNCHANGED <<users, posts, now, nextId, streak>>

\* await DB.findPostById(postId); UserModel.getById(post.userId) is called,
\* and runs up to its cache.get
PostGetByIdFind(t) ==
    /\ pc[t] = "postGetById_find"
    /\ LET post == findPostById(posts, loc[t].postId)
           l == [loc[t] EXCEPT !.reads = @ + 1, !.found = post]
       IN IF post = Null \/ post[1].deletedAt # NullDate
          THEN /\ Complete(t, l, NotFoundError(<<"Post">>), Null)
               /\ UNCHANGED <<users, posts, cache, now, nextId, streak>>
          ELSE LET key == cacheKeys_user(post[1].userId)
                   author == cacheGet(cache, key, now)
               IN /\ cache' = cacheAfterGet(cache, key, now)
                  /\ IF author # Null
                     THEN Suspend(t, [l EXCEPT !.user = author], "postGetById_set")
                     ELSE Suspend(t, l, "postGetById_authorFind")
                  /\ UNCHANGED <<users, posts, now, nextId, streak>>

\* UserModel.getById(post.userId): await DB.findUserById
PostGetByIdAuthorFind(t) ==
    /\ pc[t] = "postGetById_authorFind"
    /\ LET user == findUserById(users, loc[t].found[1].userId, TRUE)
       IN /\ IF user = Null
             THEN Complete(t, loc[t], NotFoundError(<<"User">>), Null)
             ELSE Suspend(t, [loc[t] EXCEPT !.user = Some(toPublicProfile(user[1]))],
                          "postGetById_authorSet")
          /\ UNCHANGED <<users, posts, cache, now, nextId, streak>>

\* UserModel.getById(post.userId): await cache.set(cacheKey, profile)
PostGetByIdAuthorSet(t) ==
    /\ pc[t] = "postGetById_authorSet"
    /\ cache' = cacheSet(cache, cacheKeys_user(loc[t].found[1].userId), loc[t].user[1], now)
    /\ Suspend(t, loc[t], "postGetById_set")
    /\ UNCHANGED <<users, posts, now, nextId, streak>>

\* { ...post, author }
withAuthor(post, author) == [author |-> author] @@ post

\* await cache.set(cacheKey, postWithAuthor); getById returns postWithAuthor
PostGetByIdSet(t) ==
    /\ pc[t] = "postGetById_set"
    /\ LET postWithAuthor == withAuthor(loc[t].found[1], loc[t].user[1])
       IN /\ cache' = cacheSet(cache, loc[t].key, postWithAuthor, now)
          /\ Complete(t, loc[t], NoError, Some(postWithAuthor))
    /\ UNCHANGED <<users, posts, now, nextId, streak>>

(***************************************************************************)
(* PostModel.getByUserId                                                   *)
(***************************************************************************)
\* Math.floor(offset / limit)
pageOf(options) == options.offset \div options.limit

\* isValidId, validatePagination, then await cache.get(cacheKeys.userPosts(...))
GetByUserIdCall(t, userId, limit, offset, order) ==
    /\ pc[t] = "idle"
    /\ LET options == validatePagination(limit, offset, order)
           l == [IdleLoc EXCEPT !.op = "getByUserId", !.id = userId, !.options = options,
                                !.deleted = Deleted, !.args = <<limit, offset, order>>]
       IN /\ IF ~isValidId(userId)
             THEN cache' = cache /\ Complete(t, l, ValidationError(<<"Invalid userId">>), Null)
             ELSE IF options.error # NoError
             THEN cache' = cache /\ Complete(t, l, options.error, Null)
             ELSE LET key == cacheKeys_userPosts(userId, pageOf(options))
                      cached == cacheGet(cache, key, now)
                  IN /\ cache' = cacheAfterGet(cache, key, now)
                     /\ IF cached # Null
                        THEN Complete(t, [l EXCEPT !.key = key], NoError, cached)
                        ELSE Suspend(t, [l EXCEPT !.key = key], "getByUserId_find")
          /\ UNCHANGED <<users, posts, now, nextId, streak>>

\* await DB.findPosts({ where: { userId, deletedAt: null }, orderBy, limit, offset })
GetByUserIdFind(t) ==
    /\ pc[t] = "getByUserId_find"
    /\ LET o == loc[t].options
           found == findPosts(posts, Some(loc[t].id), TRUE, Some(o.order), o.limit, o.offset)
           l == [loc[t] EXCEPT !.reads = @ + 1, !.found = found.posts]
       IN /\ IF found.error # NoError
             THEN Complete(t, l, found.error, Null)
             ELSE Suspend(t, l, "getByUserId_set")
          /\ UNCHANGED <<users, posts, cache, now, nextId, streak>>

\* await cache.set(cacheKey, posts); getByUserId returns posts
GetByUserIdSet(t) ==
    /\ pc[t] = "getByUserId_set"
    /\ cache' = cacheSet(cache, loc[t].key, loc[t].found, now)
    /\ Complete(t, loc[t], NoError, Some(loc[t].found))
    /\ UNCHANGED <<users, posts, now, nextId, streak>>

(***************************************************************************)
(* PostModel.getAllWithAuthors                                             *)
(***************************************************************************)
\* validatePagination, then await cache.get(cacheKeys.feed(page))
GetAllWithAuthorsCall(t, limit, offset, order) ==
    /\ pc[t] = "idle"
    /\ LET options == validatePagination(limit, offset, order)
           l == [IdleLoc EXCEPT !.op = "getAllWithAuthors", !.options = options,
                                !.deleted = Deleted, !.args = <<limit, offset, order>>]
       IN /\ IF options.error # NoError
             THEN cache' = cache /\ Complete(t, l, options.error, Null)
             ELSE LET key == cacheKeys_feed(pageOf(options))
                      cached == cacheGet(cache, key, now)
                  IN /\ cache' = cacheAfterGet(cache, key, now)
                     /\ IF cached # Null
                        THEN Complete(t, [l EXCEPT !.key = key], NoError, cached)
                        ELSE Suspend(t, [l EXCEPT !.key = key], "getAllWithAuthors_find")
          /\ UNCHANGED <<users, posts, now, nextId, streak>>

\* cache.get of several keys in one run: every expired one is evicted
cacheAfterGets(c, keys, time) ==
    [k \in {k \in DOMAIN c : ~(k \in keys /\ time > c[k].expiresAt)} |-> c[k]]

\* await DB.findPosts({ where: { deletedAt: null }, orderBy, limit, offset });
\* posts.map calls UserModel.getById for every post, each up to its cache.get
GetAllWithAuthorsFind(t) ==
    /\ pc[t] = "getAllWithAuthors_find"
    /\ LET o == loc[t].options
           found == findPosts(posts, Null, TRUE, Some(o.order), o.limit, o.offset)
           l == [loc[t] EXCEPT !.reads = @ + 1, !.found = found.posts]
           authorIds == {found.posts[i].userId : i \in 1..Len(found.posts)}
           hits == {id \in authorIds : cacheGet(cache, cacheKeys_user(id), now) # Null}
           authors == [id \in hits |-> cacheGet(cache, cacheKeys_user(id), now)[1]]
       IN IF found.error # NoError
          THEN /\ Complete(t, l, found.error, Null)
               /\ UNCHANGED <<users, posts, cache, now, nextId, streak>>
          ELSE /\ cache' = cacheAfterGets(cache, {cacheKeys_user(id) : id \in authorIds}, now)
               /\ Suspend(t, [l EXCEPT !.authors = authors, !.missing = authorIds \ hits],
                          IF authorIds \ hits = {} THEN "getAllWithAuthors_set"
                          ELSE "getAllWithAuthors_authorsFind")
               /\ UNCHANGED <<users, posts, now, nextId, streak>>

\* every pending UserModel.getById: await DB.findUserById; a post whose author
\* is not found is skipped
GetAllWithAuthorsAuthorsFind(t) ==
    /\ pc[t] = "getAllWithAuthors_authorsFind"
    /\ LET present == {id \in loc[t].missing : findUserById(users, id, TRUE) # Null}
           authors == [id \in DOMAIN loc[t].authors \cup present |->
                          IF id \in present
                          THEN toPublicProfile(findUserById(users, id, TRUE)[1])
                          ELSE loc[t].authors[id]]
       IN /\ Suspend(t, [loc[t] EXCEPT !.authors = authors, !.missing = present],
                     IF present = {} THEN "getAllWithAuthors_set"
                     ELSE "getAllWithAuthors_authorsSet")
          /\ UNCHANGED <<users, posts, cache, now, nextId, streak>>

\* every pending UserModel.getById: await cache.set(cacheKey, profile)
GetAllWithAuthorsAuthorsSet(t) ==
    /\ pc[t] = "getAllWithAuthors_authorsSet"
    /\ LET keys == {cacheKeys_user(id) : id \in loc[t].missing}
           idOf(k) == CHOOSE id \in loc[t].missing : cacheKeys_user(id) = k
       IN cache' = [k \in DOMAIN cache \cup keys |->
                       IF k \in keys
                       THEN [value |-> loc[t].authors[idOf(k)], expiresAt |-> now + CacheTtlMs]
                       ELSE cache[k]]
    /\ Suspend(t, loc[t], "getAllWithAuthors_set")
    /\ UNCHANGED <<users, posts, now, nextId, streak>>

\* postsWithAuthors.filter(p => p !== null)
validPosts(found, authors) ==
    LET HasAuthor(p) == p.userId \in DOMAIN authors
        kept == SelectSeq(found, HasAuthor)
    IN [i \in 1..Len(kept) |-> withAuthor(kept[i], authors[kept[i].userId])]

\* await cache.set(cacheKey, validPosts); getAllWithAuthors returns validPosts
GetAllWithAuthorsSet(t) ==
    /\ pc[t] = "getAllWithAuthors_set"
    /\ LET valid == validPosts(loc[t].found, loc[t].authors)
       IN /\ cache' = cacheSet(cache, loc[t].key, valid, now)
          /\ Complete(t, loc[t], NoError, Some(valid))
    /\ UNCHANGED <<users, posts, now, nextId, streak>>

(***************************************************************************)
(* DB.transaction                                                          *)
(***************************************************************************)
\* postSnapshot = JSON.parse(JSON.stringify(posts)), the same for users
Snapshot == [posts |-> JsonPosts(posts), users |-> JsonUsers(users)]

\* catch (error) { posts = postSnapshot; users = userSnapshot; throw error }
Rollback(t, error) ==
    /\ posts' = loc[t].snapshot.posts
    /\ users' = loc[t].snapshot.users
    /\ Complete(t, loc[t], error, Null)

(***************************************************************************)
(* PostModel.create                                                        *)
(***************************************************************************)
\* posts being inserted by calls in flight
Inserting == {o \in Workers : pc[o] = "create_insert"}

\* isValidId, validatePostContent, sanitizeText; DB.transaction takes its
\* snapshots and the callback runs up to the await of tx.userExists
CreateCall(t, userId, content) ==
    /\ pc[t] = "idle"
    /\ Len(posts) + Cardinality(Inserting) < MaxPosts
    /\ nextId + Cardinality(Inserting) <= Len(SeedUsers) + MaxPosts
    /\ LET l == [IdleLoc EXCEPT !.op = "create", !.id = userId, !.content = content,
                                !.cachedKeys = DOMAIN cache]
       IN IF ~isValidId(userId)
          THEN Complete(t, l, ValidationError(<<"Invalid userId">>), Null)
          ELSE IF validatePostContent(content) # NoError
          THEN Complete(t, l, validatePostContent(content), Null)
          ELSE Suspend(t, [l EXCEPT !.sanitizedContent = sanitizeText(content),
                                    !.snapshot = Snapshot,
                                    !.begin = [posts |-> posts, users |-> users],
                                    !.userExists = userExists(users, userId)],
                       "create_insert")
    /\ UNCHANGED <<users, posts, cache, now, nextId, streak>>

\* if (!userExists) throw new NotFoundError('User'); await tx.insertPost
CreateInsert(t) ==
    /\ pc[t] = "create_insert"
    /\ IF ~loc[t].userExists
       THEN /\ Rollback(t, NotFoundError(<<"User">>))
            /\ UNCHANGED <<cache, now, nextId, streak>>
       ELSE LET data == [userId |-> loc[t].id, content |-> loc[t].sanitizedContent]
            IN /\ posts' = createPost(posts, data, nextId, now)
               /\ nextId' = nextId + 1
               /\ Suspend(t, [loc[t] EXCEPT !.found = Some(NewPost(data, nextId, now))],
                          "create_invalidateUser")
               /\ UNCHANGED <<users, cache, now, streak>>

\* await cache.deletePattern(`posts:user:${userId}:*`)
CreateInvalidateUser(t) ==
    /\ pc[t] = "create_invalidateUser"
    /\ cache' = cacheDeletePattern(cache, userPostsPattern(loc[t].id))
    /\ Suspend(t, loc[t], "create_invalidateFeed")
    /\ UNCHANGED <<users, posts, now, nextId, streak>>

\* await cache.deletePattern('posts:feed:*'); create returns post
CreateInvalidateFeed(t) ==
    /\ pc[t] = "create_invalidateFeed"
    /\ cache' = cacheDeletePattern(cache, feedPattern)
    /\ Complete(t, loc[t], NoError, loc[t].found)
    /\ UNCHANGED <<users, posts, now, nextId, streak>>

(***************************************************************************)
(* PostModel.deleteOwned                                                   *)
(***************************************************************************)
\* isValidId of both; DB.transaction takes its snapshots and the callback runs
\* up to the await in tx.findPostByIdForUpdate
DeleteOwnedCall(t, postId, userId) ==
    /\ pc[t] = "idle"
    /\ LET l == [IdleLoc EXCEPT !.op = "deleteOwned", !.postId = postId, !.id = userId]
       IN IF ~isValidId(postId) \/ ~isValidId(userId)
          THEN Complete(t, l, ValidationError(<<"Invalid post or user ID">>), Null)
          ELSE Suspend(t, [l EXCEPT !.snapshot = Snapshot,
                                    !.begin = [posts |-> posts, users |-> users]],
                       "deleteOwned_find")
    /\ UNCHANGED <<users, posts, cache, now, nextId, streak>>

\* tx.findPostByIdForUpdate, the existence check and the authorization check
DeleteOwnedFind(t) ==
    /\ pc[t] = "deleteOwned_find"
    /\ LET post == findPostById(posts, loc[t].postId)
       IN IF post = Null \/ post[1].deletedAt # NullDate
          THEN /\ Rollback(t, NotFoundError(<<"Post">>))
               /\ UNCHANGED <<cache, now, nextId, streak>>
          ELSE IF post[1].userId # loc[t].id
          THEN /\ Rollback(t, ForbiddenError(<<"You can only delete your own posts">>))
               /\ UNCHANGED <<cache, now, nextId, streak>>
          ELSE /\ Suspend(t, [loc[t] EXCEPT !.found = post], "deleteOwned_soft")
               /\ UNCHANGED <<users, posts, cache, now, nextId, streak>>

\* await tx.softDeletePost(postId); the transaction returns true
DeleteOwnedSoft(t) ==
    /\ pc[t] = "deleteOwned_soft"
    /\ posts' = softDeletePost(posts, loc[t].postId, now)
    /\ Suspend(t, loc[t], "deleteOwned_invalidatePost")
    /\ UNCHANGED <<users, cache, now, nextId, streak>>

\* await cache.delete(cacheKeys.post(postId))
DeleteOwnedInvalidatePost(t) ==
    /\ pc[t] = "deleteOwned_invalidatePost"
    /\ cache' = cacheDelete(cache, cacheKeys_post(loc[t].postId))
    /\ Suspend(t, loc[t], "deleteOwned_invalidateUser")
    /\ UNCHANGED <<users, posts, now, nextId, streak>>

\* await cache.deletePattern(`posts:user:${userId}:*`)
DeleteOwnedInvalidateUser(t) ==
    /\ pc[t] = "deleteOwned_invalidateUser"
    /\ cache' = cacheDeletePattern(cache, userPostsPattern(loc[t].id))
    /\ Suspend(t, loc[t], "deleteOwned_invalidateFeed")
    /\ UNCHANGED <<users, posts, now, nextId, streak>>

\* await cache.deletePattern('posts:feed:*'); deleteOwned returns true
DeleteOwnedInvalidateFeed(t) ==
    /\ pc[t] = "deleteOwned_invalidateFeed"
    /\ cache' = cacheDeletePattern(cache, feedPattern)
    /\ Complete(t, loc[t], NoError, Some(TRUE))
    /\ UNCHANGED <<users, posts, now, nextId, streak>>

(***************************************************************************)
(* The clock.  It advances between calls and while calls wait for bcrypt;  *)
(* a step of the clock is minutes, and an awaited operation of the store   *)
(* or of the cache does not last that long.                                *)
(***************************************************************************)
Tick ==
    /\ now < MaxTicks * TickMs
    /\ \A t \in Workers : pc[t] \in {"idle", "auth_verify", "register_create"}
    /\ now' = now + TickMs
    /\ response' = NoCall
    /\ UNCHANGED <<posts, users, cache, nextId, pc, loc, streak>>

\* the same clock, in steps of the cache TTL
TickTtl ==
    /\ now < TtlTicks * CacheTtlMs
    /\ \A t \in Workers : pc[t] = "idle"
    /\ now' = now + CacheTtlMs
    /\ response' = NoCall
    /\ UNCHANGED <<posts, users, cache, nextId, pc, loc, streak>>

(***************************************************************************)
(* Specifications.                                                         *)
(***************************************************************************)
Authenticate ==
    \E t \in Tasks :
        \/ \E email \in LoginEmails, password \in LoginPasswords : AuthCall(t, email, password)
        \/ AuthVerify(t)
        \/ RecordFailedLoginFind(t)
        \/ RecordFailedLoginUpdate(t)
        \/ AuthReset(t)

Register ==
    \E t \in Tasks :
        \/ \E email \in RegisterEmails, password \in RegisterPasswords,
              displayName \in RegisterNames : RegisterCall(t, email, password, displayName)
        \/ RegisterCreate(t)
        \/ RegisterInvalidate(t)

GetAll ==
    \E t \in Tasks :
        \/ GetAllCall(t)
        \/ GetAllFind(t)
        \/ GetAllSet(t)

\* the ids the reads are called with
ProfileIds == {1, UnknownId, NotAUuid}
ReadPostIds == {4, UnknownId}

\* { limit, offset, order } of a read; null is an option left out
DefaultPage == <<Null, Null, Null>>
BadPage == <<Some(101), Null, Null>>

\* the slot the cached reads of SpecReads run in, one after the other
Readers == {"t1"}

GetById ==
    \E t \in Readers :
        \/ \E id \in ProfileIds : GetByIdCall(t, id)
        \/ GetByIdFind(t)
        \/ GetByIdSet(t)

PostGetById ==
    \E t \in Readers :
        \/ \E postId \in ReadPostIds : PostGetByIdCall(t, postId)
        \/ PostGetByIdFind(t)
        \/ PostGetByIdAuthorFind(t)
        \/ PostGetByIdAuthorSet(t)
        \/ PostGetByIdSet(t)

GetByUserId ==
    \E t \in Readers :
        \/ \E o \in {DefaultPage, BadPage} : GetByUserIdCall(t, 1, o[1], o[2], o[3])
        \/ GetByUserIdFind(t)
        \/ GetByUserIdSet(t)

GetAllWithAuthors ==
    \E t \in Readers :
        \/ \E o \in {DefaultPage, BadPage} : GetAllWithAuthorsCall(t, o[1], o[2], o[3])
        \/ GetAllWithAuthorsFind(t)
        \/ GetAllWithAuthorsAuthorsFind(t)
        \/ GetAllWithAuthorsAuthorsSet(t)
        \/ GetAllWithAuthorsSet(t)

\* the contents posts are created with
Hi == <<"H", "i">>
OnlyBrackets == <<"<", ">">>
Long280 == [i \in 1..MAX_POST_LENGTH |-> "x"]
Long281 == [i \in 1..(MAX_POST_LENGTH + 1) |-> "x"]

\* reads of one profile in every slot, next to creations of a post for an id
\* that no user has
ProfileRace ==
    \E t \in Workers :
        \/ GetByIdCall(t, 1)
        \/ GetByIdFind(t)
        \/ GetByIdSet(t)
        \/ CreateCall(t, UnknownId, Hi)
        \/ CreateInsert(t)

\* the options the lists are read with in SpecPages: left out (null), at and
\* beyond the ends of their ranges, and in either case of the letters
PageLimits == {Null, Some(0), Some(2), Some(100), Some(101)}
PageOffsets == {Null, Some(-1), Some(2)}
PageOrders == {Null, Some(<<"a", "s", "c">>), Some(<<"u", "p">>)}

Pages ==
    \E t \in Readers :
        \/ \E limit \in PageLimits, offset \in PageOffsets, order \in PageOrders :
              \/ GetByUserIdCall(t, 1, limit, offset, order)
              \/ GetAllWithAuthorsCall(t, limit, offset, order)
        \/ GetByUserIdFind(t)
        \/ GetByUserIdSet(t)
        \/ GetAllWithAuthorsFind(t)
        \/ GetAllWithAuthorsAuthorsFind(t)
        \/ GetAllWithAuthorsAuthorsSet(t)
        \/ GetAllWithAuthorsSet(t)

\* creations of posts: by a user, and by an id that no user has
CreateUserIds == {1, UnknownId}
CreateContents == {OnlyBrackets, Long280, Long281}

Create ==
    \E t \in Tasks :
        \/ \E userId \in CreateUserIds, content \in CreateContents :
              CreateCall(t, userId, content)
        \/ CreateInsert(t)
        \/ CreateInvalidateUser(t)
        \/ CreateInvalidateFeed(t)

\* deletions of the first seeded post: by its author, by another user, and of
\* an id that no post has
DeleteArgs == {<<4, 1>>, <<4, 2>>, <<UnknownId, 1>>}

DeleteOwned ==
    \E t \in Tasks :
        \/ \E a \in DeleteArgs : DeleteOwnedCall(t, a[1], a[2])
        \/ DeleteOwnedFind(t)
        \/ DeleteOwnedSoft(t)
        \/ DeleteOwnedInvalidatePost(t)
        \/ DeleteOwnedInvalidateUser(t)
        \/ DeleteOwnedInvalidateFeed(t)

\* the reads that run next to the writes: of the first seeded post,
PostRead ==
    \E t \in Tasks :
        \/ PostGetByIdCall(t, 4)
        \/ PostGetByIdFind(t)
        \/ PostGetByIdAuthorFind(t)
        \/ PostGetByIdAuthorSet(t)
        \/ PostGetByIdSet(t)

\* and of the posts of its author and of the feed
ListReads ==
    \E t \in Tasks :
        \/ GetByUserIdCall(t, 1, Null, Null, Null)
        \/ GetByUserIdFind(t)
        \/ GetByUserIdSet(t)
        \/ GetAllWithAuthorsCall(t, Null, Null, Null)
        \/ GetAllWithAuthorsFind(t)
        \/ GetAllWithAuthorsAuthorsFind(t)
        \/ GetAllWithAuthorsAuthorsSet(t)
        \/ GetAllWithAuthorsSet(t)

\* logins against the seeded accounts
NextAuth == Authenticate \/ Tick

SpecAuth == Init /\ [][NextAuth]_vars

\* registrations and reads of the user list
NextRegister == Register \/ GetAll \/ Tick

SpecRegister == Init /\ [][NextRegister]_vars

\* the cached reads, with the clock stepping through the TTL
NextReads == GetById \/ GetAll \/ PostGetById \/ GetByUserId \/ GetAllWithAuthors \/ TickTtl

SpecReads == Init /\ [][NextReads]_vars

\* logins and registrations, one call after the other
Accounts ==
    \E t \in Readers :
        \/ \E email \in {AliceUpperEmail, AnnEmail}, password \in {Password123, WrongPassword} :
              AuthCall(t, email, password)
        \/ AuthVerify(t)
        \/ RecordFailedLoginFind(t)
        \/ RecordFailedLoginUpdate(t)
        \/ AuthReset(t)
        \/ RegisterCall(t, AnnEmail, Password123, AnnName)
        \/ RegisterCreate(t)
        \/ RegisterInvalidate(t)

\* every call that returns or caches a view of a user
NextViews == Accounts \/ GetAll \/ GetById \/ PostGetById \/ GetAllWithAuthors

SpecViews == Init /\ [][NextViews]_vars

\* reads of the lists with every combination of the options
NextPages == Pages

SpecPages == Init /\ [][NextPages]_vars

\* creations of posts next to reads of posts
NextCreate == Create \/ ListReads

SpecCreate == Init /\ [][NextCreate]_vars

\* deletions of posts next to reads of posts
NextDelete == DeleteOwned \/ PostRead \/ ListReads

SpecDelete == Init /\ [][NextDelete]_vars

\* concurrent reads of a profile while creations of posts fail
NextProfiles == ProfileRace \/ TickTtl

SpecProfiles == Init /\ [][NextProfiles]_vars

(***************************************************************************)
(* Properties of authenticate(), checked under SpecAuth.                   *)
(***************************************************************************)
\* the stored record of the user with this id
Stored(id) == findUserById(users, id, FALSE)[1]

\* the last step completed a login that had passed validation and read the store
LoginDone == response.call.op = "authenticate" /\ response.call.read

\* ... and the e-mail has a record
LoginOnRecord == LoginDone /\ response.call.user # Null

\* the call gave the password of the record it read
RightPassword(call) ==
    call.user # Null /\ verifyPassword(call.password, call.user[1].passwordHash)

\* this step ends the login of slot t on an e-mail that has a record
EndsLogin(t) ==
    /\ loc[t].op = "authenticate"
    /\ loc[t].user # Null
    /\ pc[t] # "idle"
    /\ pc'[t] = "idle"

\* when the threshold-th failed login in a row has completed, the record is
\* locked, and at that completion its lockedUntil is in the future
C1_LockedAtThreshold ==
    /\ \A id \in DOMAIN streak :
          streak[id] = MaxFailedLoginAttempts =>
              /\ Stored(id).lockedUntil # NullDate
              /\ Stored(id).failedLoginCount >= MaxFailedLoginAttempts
    /\ (/\ LoginOnRecord
        /\ response.error = InvalidCredentialsError
        /\ streak[response.call.user[1].id] = MaxFailedLoginAttempts)
          => Stored(response.call.user[1].id).lockedUntil > now

\* a login with the right password that reaches its lock check after the
\* threshold-th failure in a row, while now < lockedUntil, throws AccountLocked
C1_LaterLoginsLocked ==
    \A t \in Tasks :
        (/\ pc[t] = "auth_verify"
         /\ pc'[t] # "auth_verify"
         /\ RightPassword(loc[t])
         /\ streak[loc[t].user[1].id] = MaxFailedLoginAttempts
         /\ Stored(loc[t].user[1].id).lockedUntil > now)
          => (response'.task = t /\ response'.error = AccountLockedError)

\* C1: for every account, after MaxFailedLoginAttempts consecutive failed
\* logins the record is locked (lockedUntil is set, and in the future when the
\* last of them completes), and every later login with the right password
\* fails with AccountLocked for as long as now < lockedUntil.
C1_LockAfterThreshold == []C1_LockedAtThreshold /\ [][C1_LaterLoginsLocked]_vars

\* the right password is refused on an account that five failures in a row locked
C1_Witness ==
    /\ LoginOnRecord
    /\ RightPassword(response.call)
    /\ response.error = AccountLockedError
    /\ streak[response.call.user[1].id] = MaxFailedLoginAttempts
    /\ Stored(response.call.user[1].id).lockedUntil > now

\* C2: no login returns success for a record whose stored lockedUntil is in
\* the future, also when it overlaps other logins on the same account: a
\* step that ends a login on such a record does not return {user, token}.
C2_NoSuccessWhileLocked ==
    [][\A t \in Tasks :
          (EndsLogin(t) /\ Stored(loc[t].user[1].id).lockedUntil > now)
            => response'.error # NoError]_vars

\* C3: a successful login resets the record: when authenticate() returns
\* {user, token}, the stored record of that user has failedLoginCount = 0 and
\* lockedUntil = null.
C3_SuccessResets ==
    (LoginDone /\ response.error = NoError) =>
        /\ response.result # Null
        /\ Stored(response.result[1].user.id).failedLoginCount = 0
        /\ Stored(response.result[1].user.id).lockedUntil = NullDate

\* a login succeeds on a record that had failures counted and a lock set
C3_Witness ==
    /\ LoginDone
    /\ response.error = NoError
    /\ response.call.user[1].failedLoginCount > 0
    /\ response.call.user[1].lockedUntil # NullDate
    /\ Stored(response.call.user[1].id).failedLoginCount = 0

\* C4: anti-enumeration: in every reachable state a login on an e-mail with
\* no record and a login on an existing e-mail with a wrong password fail with
\* the same error, InvalidCredentials (same message, code and status).
C4_AntiEnumeration ==
    (LoginDone /\ ~RightPassword(response.call)) =>
        response.error = InvalidCredentialsError

\* C5: a failed login (InvalidCredentials) on an existing unlocked record that
\* no other login on the account overlaps raises the stored failedLoginCount
\* by exactly 1; when the new count reaches the threshold it sets lockedUntil =
\* now + lockout duration, below the threshold it leaves lockedUntil alone; the
\* attempt that reaches the threshold itself still gets InvalidCredentials.
C5_FailedLoginCounts ==
    (LoginOnRecord /\ response.call.solo /\ ~RightPassword(response.call)
        /\ ~isLocked(response.call.user, now)) =>
        LET before == response.call.user[1]
            after == Stored(before.id)
        IN /\ response.error = InvalidCredentialsError
           /\ after.failedLoginCount = before.failedLoginCount + 1
           /\ after.failedLoginCount >= MaxFailedLoginAttempts
                => after.lockedUntil = now + AccountLockoutDurationMs
           /\ after.failedLoginCount < MaxFailedLoginAttempts
                => after.lockedUntil = before.lockedUntil

\* the failure that takes the count from threshold - 1 to the threshold
C5_Witness ==
    /\ LoginOnRecord
    /\ response.call.solo
    /\ response.error = InvalidCredentialsError
    /\ response.call.user[1].failedLoginCount = MaxFailedLoginAttempts - 1
    /\ response.call.user[1].lockedUntil = NullDate
    /\ Stored(response.call.user[1].id).failedLoginCount = MaxFailedLoginAttempts
    /\ Stored(response.call.user[1].id).lockedUntil = now + AccountLockoutDurationMs

\* C6: a lock ends by time alone: a login with the right password on an ACTIVE
\* record whose lockedUntil the clock has reached (lockedUntil <= now)
\* succeeds, returns the token, and resets failedLoginCount and lockedUntil.
C6_LockEndsByTime ==
    (/\ LoginOnRecord
     /\ RightPassword(response.call)
     /\ response.call.user[1].status = "ACTIVE"
     /\ response.call.user[1].lockedUntil # NullDate
     /\ response.call.user[1].lockedUntil <= now) =>
        LET user == response.call.user[1]
        IN /\ response.error = NoError
           /\ response.result # Null
           /\ response.result[1].token = generateToken(user.id, user.email)
           /\ Stored(user.id).failedLoginCount = 0
           /\ Stored(user.id).lockedUntil = NullDate

\* a login succeeds at the very instant the lock ends (now = lockedUntil)
C6_Witness ==
    /\ LoginOnRecord
    /\ response.error = NoError
    /\ response.call.user[1].lockedUntil = now

\* C7: a login with a malformed e-mail or an empty password fails with
\* InvalidCredentials, the error of a wrong password, before any lookup.
C7_MalformedIsInvalidCredentials ==
    (/\ response.call.op = "authenticate"
     /\ validatedLogin[<<response.call.email, response.call.password>>] # NoError) =>
        /\ response.error = InvalidCredentialsError
        /\ ~response.call.read

(***************************************************************************)
(* Properties of register() and getAll(), checked under SpecRegister.      *)
(***************************************************************************)
\* C8: e-mail uniqueness: in every reachable state, under any interleaving of
\* register() calls, no two non-deleted records have the same normalized
\* (lowercased, trimmed) e-mail.
C8_EmailUnique ==
    \A i, j \in 1..Len(users) :
        (i # j /\ users[i].deletedAt = NullDate /\ users[j].deletedAt = NullDate)
          => trim(toLowerCase(users[i].email)) # trim(toLowerCase(users[j].email))

\* this step is the call of register() by slot t: it ends it, or takes it to
\* the creation of the record
RegisterStep(t) ==
    /\ pc[t] = "idle"
    /\ \/ pc'[t] = "register_create"
       \/ pc'[t] = "idle" /\ response'.task = t /\ response'.call.op = "register"

\* the arguments of the register() call of slot t that this step makes
RegisterArgs(t) == IF pc'[t] = "idle" THEN response'.call ELSE loc'[t]

\* the e-mails register() is called with, lowercased and trimmed
Normalized == [e \in RegisterEmails |-> trim(toLowerCase(e))]

\* the normalized e-mail of the call has a non-deleted record
EmailTaken(t) ==
    \E i \in 1..Len(users) :
        users[i].email = Normalized[RegisterArgs(t).email] /\ users[i].deletedAt = NullDate

\* the call fails with Conflict and changes neither the store nor the cache
RejectedAsConflict(t) ==
    /\ pc'[t] = "idle"
    /\ response'.error = ConflictError(<<"Email already registered">>)
    /\ users' = users
    /\ cache' = cache

\* C9 (as stated): register() with an e-mail whose normalized form is the
\* e-mail of an existing non-deleted record fails with Conflict, creates no
\* record, changes no record and leaves the users:all cache entry untouched.
C9_ConflictOnExistingEmail ==
    [][\A t \in Tasks : (RegisterStep(t) /\ EmailTaken(t)) => RejectedAsConflict(t)]_vars

\* C9 (amended): the same, for a call whose arguments pass validateRegistration
\* (well-formed e-mail, password of at least 8 characters, display name of at
\* least 2); a call that does not pass it fails with ValidationError first.
C9_ConflictOnExistingEmail_Valid ==
    [][\A t \in Tasks :
          (/\ RegisterStep(t)
           /\ EmailTaken(t)
           /\ validatedRegistration[<<RegisterArgs(t).email, RegisterArgs(t).password,
                                       RegisterArgs(t).displayName>>] = NoError)
            => RejectedAsConflict(t)]_vars

\* a registration of the seeded e-mail in another case is refused with Conflict
C9_Witness ==
    /\ response.call.op = "register"
    /\ response.call.email = AliceUpperEmail
    /\ response.error.code = "CONFLICT"
    /\ users = SeedUsers

\* C10: a successful register() persists exactly one new record, ACTIVE with
\* failedLoginCount = 0 and lockedUntil = null, and removes the users:all cache
\* entry, so that a getAll() that starts after register() has returned
\* returns a list that contains the new user.
C10_RegisterThenGetAll ==
    /\ (response.call.op = "register" /\ response.error = NoError) =>
          LET id == response.result[1].user.id
          IN /\ Cardinality({i \in 1..Len(users) : users[i].id = id}) = 1
             /\ Stored(id).status = "ACTIVE"
             /\ Stored(id).failedLoginCount = 0
             /\ Stored(id).lockedUntil = NullDate
             /\ cacheKeys_allUsers \notin DOMAIN cache
    /\ (response.call.op = "getAll" /\ response.error = NoError) =>
          \A id \in response.call.registered :
              \E i \in 1..Len(response.result[1]) : response.result[1][i].id = id

(***************************************************************************)
(* Properties of the cache and of the cached reads, checked under          *)
(* SpecReads.                                                              *)
(***************************************************************************)
\* the cached reads
CachedReads == {"getById", "getAll", "PostModel.getById", "getByUserId", "getAllWithAuthors"}

\* the cache key each of them reads and writes
KeyOf(call) ==
    IF call.op = "getById" THEN cacheKeys_user(call.id)
    ELSE IF call.op = "getAll" THEN cacheKeys_allUsers
    ELSE IF call.op = "PostModel.getById" THEN cacheKeys_post(call.postId)
    ELSE IF call.op = "getByUserId" THEN cacheKeys_userPosts(call.id, pageOf(call.options))
    ELSE cacheKeys_feed(pageOf(call.options))

\* this step is the cache.get of a cached read of slot t whose arguments are valid
CacheGetStep(t) ==
    /\ pc[t] = "idle"
    /\ \/ pc'[t] # "idle" /\ loc'[t].op \in CachedReads
       \/ /\ pc'[t] = "idle"
          /\ response'.task = t
          /\ response'.call.op \in CachedReads
          /\ response'.error.code # "VALIDATION_ERROR"

\* the call of slot t that this step makes
CallOf(t) == IF pc'[t] = "idle" THEN response'.call ELSE loc'[t]

\* the entry of this key is there and has not expired
Live(key) == key \in DOMAIN cache /\ now <= cache[key].expiresAt

\* C11: the cache never returns an expired value: a cached read returns in
\* its cache.get step exactly when an entry of its key exists with
\* now <= expiresAt, and then returns the value of that entry; with no entry,
\* or an entry with now > expiresAt (evicted or not), it goes on to storage.
\* The same holds of the author lookup inside PostModel.getById.
C11_NoExpiredValue ==
    [][\A t \in Tasks :
          /\ CacheGetStep(t) =>
                IF Live(KeyOf(CallOf(t)))
                THEN /\ pc'[t] = "idle"
                     /\ response'.error = NoError
                     /\ response'.result = Some(cache[KeyOf(CallOf(t))].value)
                ELSE /\ pc'[t] # "idle"
                     /\ loc'[t].reads = 0
                     /\ KeyOf(CallOf(t)) \notin DOMAIN cache'
          /\ (pc[t] = "postGetById_find" /\ pc'[t] = "postGetById_set") =>
                /\ Live(cacheKeys_user(loc'[t].found[1].userId))
                /\ loc'[t].user
                     = Some(cache[cacheKeys_user(loc'[t].found[1].userId)].value)
          /\ (pc[t] = "postGetById_find" /\ pc'[t] = "postGetById_authorFind") =>
                ~Live(cacheKeys_user(loc'[t].found[1].userId))]_vars

\* a profile is returned from the cache at the instant its entry expires
\* (now = expiresAt) while another entry, expired, has not been evicted
C11_Witness ==
    /\ response.call.op = "getById"
    /\ response.error = NoError
    /\ response.call.reads = 0
    /\ cache[response.call.key].expiresAt = now
    /\ \E k \in DOMAIN cache : now > cache[k].expiresAt

\* the last step completed a cached read that returned a value
ReadReturned == response.call.op \in CachedReads /\ response.error = NoError

\* no cached read has read storage more than once, and a read that has missed
\* and returned has left its value in the cache under its key, for the TTL
C12_OneLoadPerMiss ==
    /\ \A t \in Tasks : loc[t].reads <= 1
    /\ response.call.reads <= 1
    /\ (ReadReturned /\ response.call.reads = 1) =>
          /\ KeyOf(response.call) \in DOMAIN cache
          /\ cache[KeyOf(response.call)]
               = [value |-> response.result[1], expiresAt |-> now + CacheTtlMs]

\* a read of the key that the read before it has just returned is a hit: it
\* returns the same value in its cache.get step, without reading storage
C12_SecondReadIsHit ==
    \A t \in Tasks :
        (ReadReturned /\ CacheGetStep(t) /\ KeyOf(CallOf(t)) = KeyOf(response.call)) =>
            /\ pc'[t] = "idle"
            /\ response'.error = NoError
            /\ response'.result = response.result
            /\ response'.call.reads = 0

\* with no write, an entry stays as it is for as long as the TTL has not passed
C12_EntryKeptWithinTtl ==
    \A k \in DOMAIN cache :
        now' <= cache[k].expiresAt => (k \in DOMAIN cache' /\ cache'[k] = cache[k])

\* C12: for user by id, all users, post by id, posts by user and the feed:
\* two reads of the same key one after the other, within the TTL and with no
\* write in between, return the identical value; the second is a cache hit
\* that does not read storage; a miss reads storage at most once.
C12_RepeatedReadIsHit ==
    []C12_OneLoadPerMiss /\ [][C12_SecondReadIsHit /\ C12_EntryKeptWithinTtl]_vars

\* the feed is returned from the cache, all five posts of it, a full TTL after
\* the read that stored it
C12_Witness ==
    /\ response.call.op = "getAllWithAuthors"
    /\ response.error = NoError
    /\ response.call.reads = 0
    /\ Len(response.result[1]) = 5
    /\ cache[response.call.key].expiresAt = now
    /\ now = CacheTtlMs

(***************************************************************************)
(* Properties of concurrent getById() calls, checked under SpecProfiles.   *)
(***************************************************************************)
\* slot t is in a getById() of this id that has read the profile from storage
HasRead(t, id) == loc[t].op = "getById" /\ loc[t].id = id /\ loc[t].found # <<>>

\* C13: two concurrent getById(sameId) calls on a cold cache both return the
\* same profile: two calls in flight that both missed and both read storage
\* hold the same profile to return; and the cache entry a returning call
\* leaves behind is the profile it returns.
C13_ConcurrentSameProfile ==
    /\ \A t, u \in Workers, id \in ProfileIds :
          (HasRead(t, id) /\ HasRead(u, id)) => loc[t].found = loc[u].found
    /\ (response.call.op = "getById" /\ response.error = NoError) =>
          /\ response.call.key \in DOMAIN cache
          /\ cache[response.call.key].value = response.result[1]

(***************************************************************************)
(* Properties of PostModel.create, checked under SpecCreate.               *)
(***************************************************************************)
\* the last step returned from a create()
Created == response.call.op = "create" /\ response.error = NoError

\* a key of the form posts:feed:* or posts:user:<authorId>:*
ListKeyOf(authorId, k) ==
    regexTest(feedPattern, k) \/ regexTest(userPostsPattern(authorId), k)

\* C14: creating a post invalidates the read caches of its author and of the
\* feed: every cache key of the form posts:feed:* or posts:user:<authorId>:*
\* that was present when PostModel.create(authorId, content) was called is
\* absent when create returns.
C14_CreateInvalidates ==
    Created =>
        \A k \in response.call.cachedKeys :
            ListKeyOf(response.call.id, k) => k \notin DOMAIN cache

\* C17: every post that is persisted has content of 1 to 280 characters
\* after sanitization (removal of '<' and '>', whitespace collapsed, trimmed):
\* the bound is enforced on the sanitized content before the post is written.
C17_PersistedContentLength ==
    \A i \in 1..Len(posts) :
        /\ Len(posts[i].content) >= 1
        /\ Len(posts[i].content) <= MAX_POST_LENGTH

\* this step is the call of create() by slot t
CreateStep(t) ==
    /\ pc[t] = "idle"
    /\ \/ pc'[t] = "create_insert"
       \/ pc'[t] = "idle" /\ response'.task = t /\ response'.call.op = "create"

\* the arguments of the create() call of slot t that this step makes
CreateArgs(t) == IF pc'[t] = "idle" THEN response'.call ELSE loc'[t]

\* a call with more than 280 characters ends at once with ValidationError, and
\* nothing is written
C18_TooLongRefused(t) ==
    (CreateStep(t) /\ isValidId(CreateArgs(t).id)
        /\ Len(CreateArgs(t).content) > MAX_POST_LENGTH) =>
        /\ pc'[t] = "idle"
        /\ response'.error.code = "VALIDATION_ERROR"
        /\ posts' = posts
        /\ users' = users
        /\ cache' = cache

\* a call with exactly 280 characters (not all of them whitespace) goes on to
\* the insertion,
C18_LimitAccepted(t) ==
    (CreateStep(t) /\ isValidId(CreateArgs(t).id)
        /\ Len(CreateArgs(t).content) = MAX_POST_LENGTH
        /\ isNonEmptyString(CreateArgs(t).content)) =>
        pc'[t] = "create_insert"

\* which, for a user that exists, appends the post with its 280 characters
C18_LimitPersisted(t) ==
    (/\ pc[t] = "create_insert"
     /\ pc'[t] # "create_insert"
     /\ loc[t].userExists
     /\ Len(loc[t].content) = MAX_POST_LENGTH) =>
        /\ Len(posts') = Len(posts) + 1
        /\ SubSeq(posts', 1, Len(posts)) = posts
        /\ posts'[Len(posts')].userId = loc[t].id
        /\ posts'[Len(posts')].content = sanitizeText(loc[t].content)
        /\ Len(posts'[Len(posts')].content) = MAX_POST_LENGTH

\* C18: post length boundary: PostModel.create with content of 281
\* characters fails with ValidationError and persists nothing; content of
\* exactly 280 characters is accepted and persisted.
C18_LengthBoundary ==
    [][\A t \in Tasks :
          C18_TooLongRefused(t) /\ C18_LimitAccepted(t) /\ C18_LimitPersisted(t)]_vars

\* a create() has returned a post of exactly 280 characters, which is in the
\* table
C18_Witness ==
    /\ Created
    /\ Len(response.call.content) = MAX_POST_LENGTH
    /\ Len(response.result[1].content) = MAX_POST_LENGTH
    /\ \E i \in 1..Len(posts) : posts[i] = response.result[1]

(***************************************************************************)
(* Properties of PostModel.deleteOwned and of DB.transaction, checked      *)
(* under SpecDelete.                                                       *)
(***************************************************************************)
\* this step is the one in which the deleteOwned() of slot t finds its post
\* missing, deleted, or owned by another user
DeleteRefused(t) == pc[t] = "deleteOwned_find" /\ pc'[t] = "idle"

\* the post the call is about is there, not deleted, and of another user
NotTheAuthor(t) ==
    LET post == findPostById(posts, loc[t].postId)
    IN post # Null /\ post[1].deletedAt = NullDate /\ post[1].userId # loc[t].id

\* C15: deleteOwned(postId, userId) by a user who is not the author fails
\* with Forbidden, and on a post that does not exist or is already deleted
\* with NotFound; in both cases the deletedAt of the post, every other post,
\* every user record and every cache entry are unchanged.
C15_RefusedDeleteChangesNothing ==
    [][\A t \in Tasks :
          DeleteRefused(t) =>
              /\ response'.error.code = IF NotTheAuthor(t) THEN "FORBIDDEN" ELSE "NOT_FOUND"
              /\ posts' = posts
              /\ users' = users
              /\ cache' = cache]_vars

\* the posts a read of posts has returned
Returned ==
    IF response.error # NoError \/ response.result = Null THEN {}
    ELSE IF response.call.op = "PostModel.getById" THEN {response.result[1].id}
    ELSE IF response.call.op \in {"getByUserId", "getAllWithAuthors"}
    THEN {response.result[1][i].id : i \in 1..Len(response.result[1])}
    ELSE {}

\* C16: a soft-deleted post is excluded from all reads: no getById(postId),
\* getByUserId(authorId, ...) or getAllWithAuthors(...) that is called after
\* deleteOwned(postId, authorId) has returned returns that post, whatever was
\* cached before the delete.
C16_DeletedPostNotRead == Returned \cap response.call.deleted = {}

\* this step is the one in which the callback of the transaction of slot t
\* throws
Throws(t) == pc[t] \in {"create_insert", "deleteOwned_find"} /\ pc'[t] = "idle"

\* this step is a write of the callback of the transaction of slot t
Writes(t) ==
    \/ pc[t] = "create_insert" /\ pc'[t] = "create_invalidateUser"
    \/ pc[t] = "deleteOwned_soft" /\ pc'[t] = "deleteOwned_invalidatePost"

\* C19: DB.transaction is all-or-nothing for one logical write: if the
\* callback of a post creation or deletion throws, the posts and users stores
\* afterwards equal their contents at the moment the transaction began, and
\* the error is propagated to the caller; if the callback returns, its write
\* is kept (the post is in the table, or has its deletedAt set).
C19_TransactionAllOrNothing ==
    [][\A t \in Tasks :
          /\ Throws(t) =>
                /\ posts' = loc[t].begin.posts
                /\ users' = loc[t].begin.users
                /\ response'.task = t
                /\ response'.error.code \in {"NOT_FOUND", "FORBIDDEN"}
          /\ (Writes(t) /\ loc[t].op = "create") =>
                \E i \in 1..Len(posts') : posts'[i] = loc'[t].found[1]
          /\ (Writes(t) /\ loc[t].op = "deleteOwned") =>
                findPostById(posts', loc[t].postId)[1].deletedAt # NullDate]_vars

(***************************************************************************)
(* Properties of the views of a user, checked under SpecViews.             *)
(***************************************************************************)
\* a view without the password hash
SafeView(user) == "passwordHash" \notin DOMAIN user

\* a view without the password hash, the e-mail and the lockout fields
PublicView(profile) ==
    DOMAIN profile \cap {"passwordHash", "email", "failedLoginCount", "lockedUntil"} = {}

\* what a call has returned carries no password hash, and the profiles in it
\* no private field
ReturnedViewsSafe ==
    (response.error = NoError /\ response.result # Null) =>
        LET result == response.result[1]
            op == response.call.op
        IN /\ op \in {"authenticate", "register"} =>
                /\ DOMAIN result = {"user", "token"}
                /\ SafeView(result.user)
                /\ result.token = generateToken(result.user.id, result.user.email)
           /\ op = "getById" => PublicView(result)
           /\ op = "getAll" => \A i \in 1..Len(result) : PublicView(result[i])
           /\ op = "PostModel.getById" => SafeView(result) /\ PublicView(result.author)
           /\ op = "getAllWithAuthors" =>
                \A i \in 1..Len(result) : SafeView(result[i]) /\ PublicView(result[i].author)

\* the same of every value in the cache
CachedViewsSafe ==
    \A k \in DOMAIN cache :
        LET value == cache[k].value
        IN /\ k[1] = "user" => PublicView(value)
           /\ k = cacheKeys_allUsers => \A i \in 1..Len(value) : PublicView(value[i])
           /\ k[1] = "post" => SafeView(value) /\ PublicView(value.author)
           /\ (k[1] = "posts" /\ k[2] = "feed") =>
                \A i \in 1..Len(value) : SafeView(value[i]) /\ PublicView(value[i].author)

\* C20: no value returned by authenticate(), register(), getById() or
\* getAll(), and no value stored in the cache, contains a password hash;
\* public profiles, returned or cached, contain no e-mail, failedLoginCount or
\* lockedUntil either.
C20_NoPrivateFields == ReturnedViewsSafe /\ CachedViewsSafe

\* a login returns {user, token} while a profile, the list of all users and a
\* feed with its authors are in the cache
C20_Witness ==
    /\ response.call.op = "authenticate"
    /\ response.error = NoError
    /\ cacheKeys_user(1) \in DOMAIN cache
    /\ cacheKeys_allUsers \in DOMAIN cache
    /\ cacheKeys_feed(0) \in DOMAIN cache

(***************************************************************************)
(* Properties of the paginated reads, checked under SpecPages.             *)
(***************************************************************************)
\* the last step ended, or the slot is in, a read of a list
ListCalls ==
    {response.call} \cup {loc[t] : t \in Tasks}

\* the read has options to validate: its id was valid
Paginated(call) == call.op \in {"getByUserId", "getAllWithAuthors"} /\ call.args # <<>>

\* C21: pagination normalisation: a missing limit becomes 20 and a supplied
\* limit is clamped into 1..100; a missing offset becomes 0 and offsets are
\* >= 0; a missing order becomes DESC and order is accepted in any case as
\* ASC or DESC; the result has 1 <= limit <= 100, offset >= 0 and order in
\* {ASC, DESC}.  (Stated for calls whose offset is not negative and whose
\* order is one of the two words.)
C21_PaginationNormalised ==
    \A call \in ListCalls :
        LET limit == call.args[1]
            offset == call.args[2]
            order == call.args[3]
            o == call.options
        IN (/\ Paginated(call)
            /\ offset # Null => offset[1] >= 0
            /\ order # Null => order[1] \in {ASC, DESC, <<"a", "s", "c">>, <<"d", "e", "s", "c">>})
            => /\ o.error = NoError
               /\ o.limit = IF limit = Null THEN 20
                            ELSE IF limit[1] < 1 THEN 1
                            ELSE IF limit[1] > 100 THEN 100
                            ELSE limit[1]
               /\ o.offset = IF offset = Null THEN 0 ELSE offset[1]
               /\ o.order = IF order = Null THEN DESC
                            ELSE IF order[1] \in {ASC, <<"a", "s", "c">>} THEN ASC
                            ELSE DESC

(***************************************************************************)
(* C22: recordFailedLogin reads the record, suspends, and writes the count *)
(* it read plus one.                                                       *)
(***************************************************************************)
\* slot t writes the patch of recordFailedLogin in this step
RecordsFailure(t) == pc[t] = "record_update" /\ pc'[t] = "idle"

\* C22: recordFailedLogin reads the record, suspends, and then writes the
\* count it read plus one, whatever the store holds at the write: of two
\* concurrent failed logins on one account the second write stores the count
\* the first one stored, so failedLoginCount rises by 1 instead of 2.
C22_LostUpdate ==
    [][\A t \in Tasks :
          RecordsFailure(t) =>
              LET id == loc[t].user[1].id
                  after == findUserById(users', id, FALSE)[1]
              IN after.failedLoginCount = loc[t].updates.failedLoginCount]_vars

\* one of two overlapping failed logins has written its count, and the other
\* is about to write the same count
C22_Witness ==
    /\ response.error = InvalidCredentialsError
    /\ response.call.op = "authenticate"
    /\ response.call.updates # <<>>
    /\ \E u \in Tasks \ {response.task} :
           /\ pc[u] = "record_update"
           /\ loc[u].user[1].id = response.call.user[1].id
           /\ loc[u].updates.failedLoginCount = response.call.updates.failedLoginCount
           /\ Stored(loc[u].user[1].id).failedLoginCount = loc[u].updates.failedLoginCount

(***************************************************************************)
(* C23: what authenticate() changes.                                       *)
(***************************************************************************)
\* this step is a step of the authenticate() call of slot t
LoginStep(t) ==
    \/ loc[t].op = "authenticate" /\ pc'[t] # pc[t]
    \/ /\ pc[t] = "idle"
       /\ \/ loc'[t].op = "authenticate"
          \/ response'.task = t /\ response'.call.op = "authenticate"

\* the fields that authenticate() writes
LoginFields == {"failedLoginCount", "lockedUntil"}

\* C23: authenticate() never touches the cache (an entry user:<id> cached
\* before the call is still there for getById after it), and in storage it
\* changes only failedLoginCount and lockedUntil of the record whose e-mail
\* matches the normalised e-mail; an attempt for an e-mail that has no
\* record changes no record.
C23_LoginFrame ==
    [][\A t \in Tasks :
          LoginStep(t) =>
              /\ cache' = cache
              /\ posts' = posts
              /\ Len(users') = Len(users)
              /\ \A i \in 1..Len(users) :
                    users'[i] # users[i] =>
                        /\ loc[t].user # Null
                        /\ users[i].email = loc[t].normalizedEmail
                        /\ DOMAIN users'[i] = DOMAIN users[i]
                        /\ \A f \in DOMAIN users[i] \ LoginFields :
                              users'[i][f] = users[i][f]]_vars

\* a failed login has changed the record while its profile is cached, and a
\* login for an e-mail without a record has ended
C23_Witness ==
    /\ <<"user", ToString(1)>> \in DOMAIN cache
    /\ Stored(1).failedLoginCount > 0
    /\ LoginDone
    /\ response.call.user = Null
    /\ response.error = InvalidCredentialsError

(***************************************************************************)
(* C24: a rollback and the work of other operations.                       *)
(***************************************************************************)
\* C24: a transaction that rolls back does not undo the committed work of
\* other operations that completed between its start and its rollback: the
\* posts and the users that are in the store at the rollback are still there
\* after it, a soft-deleted post is still soft-deleted, and the
\* failedLoginCount and the lock of every user are as they were.
C24_RollbackKeepsOthersWork ==
    [][\A t \in Tasks :
          Throws(t) =>
              /\ Len(posts') >= Len(posts)
              /\ \A i \in 1..Len(posts) :
                    /\ posts'[i].id = posts[i].id
                    /\ posts[i].deletedAt # NullDate => posts'[i].deletedAt # NullDate
              /\ Len(users') >= Len(users)
              /\ \A i \in 1..Len(users) :
                    /\ users'[i].id = users[i].id
                    /\ users'[i].failedLoginCount = users[i].failedLoginCount
                    /\ (users'[i].lockedUntil = NullDate) = (users[i].lockedUntil = NullDate)]_vars

(***************************************************************************)
(* C25: invalidation and the reads in flight.                              *)
(***************************************************************************)
\* no call is running: every write has returned and every read has completed
Quiet == \A t \in Workers : pc[t] = "idle"

\* the posts that are soft-deleted in the table
SoftDeleted == {posts[i].id : i \in {i \in 1..Len(posts) : posts[i].deletedAt # NullDate}}

\* the posts in the value of the cache entry of this key
CachedPosts(k) ==
    IF k[1] = "post" THEN {cache[k].value.id}
    ELSE IF k[1] = "posts" THEN {cache[k].value[i].id : i \in 1..Len(cache[k].value)}
    ELSE {}

\* C25: invalidation is not defeated by a read in flight: once the write has
\* returned and the reads that overlapped it have completed, no cache entry
\* holds a value computed from the storage state before the write; here, no
\* entry holds a post that a deleteOwned() has soft-deleted.
C25_NoStaleEntryAfterWrite ==
    Quiet => \A k \in DOMAIN cache : CachedPosts(k) \cap SoftDeleted = {}

(***************************************************************************)
(* C26: a cached list read and the uncached read, checked under SpecPages. *)
(***************************************************************************)
\* the ids of the posts of a list, in its order
IdsOf(list) == [i \in 1..Len(list) |-> list[i].id]

\* what the storage holds for the list read of this call: its posts that are
\* not deleted, in its order, from its offset, at most its limit
Uncached(call) ==
    findPosts(posts, IF call.op = "getByUserId" THEN Some(call.id) ELSE Null, TRUE,
              Some(call.options.order), call.options.limit, call.options.offset).posts

\* C26: reading a list through the cache is equivalent to reading it from
\* storage: getByUserId(userId, {limit, offset, order}) and
\* getAllWithAuthors({limit, offset, order}) return the posts the uncached
\* read returns for exactly those limit, offset and order, also when the
\* cache holds an entry written by a call with another limit, offset or order.
C26_CachedListEqualsUncached ==
    (response.call.op \in {"getByUserId", "getAllWithAuthors"} /\ response.error = NoError)
        => IdsOf(response.result[1]) = IdsOf(Uncached(response.call))

(***************************************************************************)
(* C27 to C30: the lockout under concurrent logins, checked under SpecAuth *)
(***************************************************************************)
\* C27: under any interleaving of authenticate() calls on one account, a
\* record whose lockedUntil is not null has failedLoginCount >= the threshold.
C27_LockedImpliesThreshold ==
    \A i \in 1..Len(users) :
        users[i].lockedUntil # NullDate =>
            users[i].failedLoginCount >= MaxFailedLoginAttempts

\* C28: between two resets of the counter of an account at most threshold
\* authenticate() calls have their password evaluated (end in
\* InvalidCredentials or in success): once the stored count has reached the
\* threshold, every further call on the account, the concurrent ones
\* included, ends in AccountLocked until the lock window has elapsed.
C28_AtMostThresholdEvaluated ==
    [][\A t \in Tasks :
          (/\ EndsLogin(t)
           /\ Stored(loc[t].user[1].id).failedLoginCount >= MaxFailedLoginAttempts
           /\ Stored(loc[t].user[1].id).lockedUntil > now)
            => response'.error = AccountLockedError]_vars

\* the last step completed a failed login that no other login overlapped, on
\* a record whose lock had expired
FailedAfterExpiry ==
    /\ LoginOnRecord
    /\ response.call.solo
    /\ response.error = InvalidCredentialsError
    /\ response.call.user[1].lockedUntil # NullDate

\* C29: the expiry of a lock does not reset the counter: the first failed
\* authenticate() after the expiry counts on from the stored count and sets
\* lockedUntil = now + lockout duration again, the count being above the
\* threshold; only a successful login sets the count back to 0.
C29_ExpiryKeepsCount ==
    /\ [](FailedAfterExpiry =>
            LET before == response.call.user[1]
                after == Stored(before.id)
            IN /\ after.failedLoginCount = before.failedLoginCount + 1
               /\ after.failedLoginCount > MaxFailedLoginAttempts
               /\ after.lockedUntil = now + AccountLockoutDurationMs)
    /\ [][\A i \in 1..Len(users) :
             (users[i].failedLoginCount > 0 /\ users'[i].failedLoginCount = 0)
                 => \E t \in Tasks : pc[t] = "auth_reset" /\ response'.error = NoError]_vars

\* this step of the login of slot t is its lookup, or its lock check ending
\* in AccountLocked
LockedLoginStep(t) ==
    \/ pc[t] = "idle" /\ pc'[t] = "auth_verify"
    \/ /\ pc[t] = "auth_verify"
       /\ response'.task = t
       /\ response'.error = AccountLockedError

\* C30: an authenticate() that ends in AccountLocked leaves the record
\* unchanged: neither its lookup nor its lock check writes to the store, so
\* failedLoginCount and lockedUntil are what they were.
C30_LockedLoginChangesNothing ==
    [][\A t \in Tasks : LockedLoginStep(t) => users' = users /\ posts' = posts /\ cache' = cache]_vars

\* a login was refused as locked, and the record still has the count and the
\* lock the call read
C30_Witness ==
    /\ LoginOnRecord
    /\ response.error = AccountLockedError
    /\ Stored(response.call.user[1].id).failedLoginCount = response.call.user[1].failedLoginCount
    /\ Stored(response.call.user[1].id).lockedUntil = response.call.user[1].lockedUntil
    /\ response.call.user[1].lockedUntil > now

====
